---- MODULE Spec2Model ----
(***************************************************************************)
(* Model of the Ultralight/Ebitengine bridge (bridge/ul_bridge.c and the   *)
(* Go package that drives it).                                             *)
(*                                                                         *)
(* Part I   the command channel: send_cmd and worker_thread_proc, step by  *)
(*          step, for the POSIX build (mutex + two condition variables)    *)
(*          and the Win32 build (two auto-reset events).                   *)
(* Part II  the view slot table and the exported operations, one action    *)
(*          per exported call, every engine call logged with the thread    *)
(*          that made it.                                                  *)
(***************************************************************************)
EXTENDS Integers, Sequences, FiniteSets, TLC

(* ------------------------------------------------------------------ *)
(* Bounds of the model                                                 *)
(* ------------------------------------------------------------------ *)
\* calling threads of the multi-caller specifications
NThreads == 2
\* calls to send_cmd the calling threads make, all together
MaxCalls == 3

Threads == 1..NThreads

(* ------------------------------------------------------------------ *)
(* Part I: state of the command channel                                *)
(* ------------------------------------------------------------------ *)
VARIABLES
    platform,       \* "posix" or "win32": which #ifdef branch was built
    callers,        \* the threads that call into the bridge
    pc,             \* pc[t]: where thread t is inside an exported call
    ncalls,         \* ncalls[t]: calls thread t has started
    g_cmd_type,     \* mailbox: enum CmdType
    g_cmd_str_arg,  \* mailbox: string payload
    g_cmd_int1,     \* mailbox: view_id or width
    g_cmd_int2,     \* mailbox: height
    g_cmd_owner,    \* ghost: the call that wrote g_cmd_type
    g_cmd_result,   \* result code published by the worker
    g_cmd_ready,    \* POSIX flag guarded by g_cmd_mutex
    g_cmd_done,     \* POSIX flag guarded by g_cmd_mutex
    g_cmd_mutex,    \* POSIX: 0 = free, t = held by thread t
    g_cmd_event,    \* Win32 auto-reset event
    g_done_event,   \* Win32 auto-reset event
    wpc,            \* where the worker is in its loop
    wcmd,           \* the worker's local `cmd`
    wowner,         \* ghost: the call whose type the worker took
    submitted,      \* ghost: calls in the order their commands were posted
    executed,       \* ghost: what the worker executed, in order
    got             \* got[t]: g_cmd_result as read by t's last returned call

\* the channel's state apart from the result register, which Part II shares
chanRest == <<platform, callers, pc, ncalls, g_cmd_type, g_cmd_str_arg, g_cmd_int1,
              g_cmd_int2, g_cmd_owner, g_cmd_ready, g_cmd_done,
              g_cmd_mutex, g_cmd_event, g_done_event, wpc, wcmd, wowner,
              submitted, executed, got>>

chanVars == <<chanRest, g_cmd_result>>

(* ------------------------------------------------------------------ *)
(* Part II: state of the bridge proper                                 *)
(* ------------------------------------------------------------------ *)
VARIABLES
    initRc,            \* what ul_init returned; NotCalled before the call
    g_worker_started,  \* POSIX g_worker_started / Win32 g_worker_thread != NULL
    g_renderer,        \* "NULL" or the renderer handle
    g_views,           \* the slot table, g_views[0 .. MAX_VIEWS-1]
    g_view_count,      \* C-side count of used slots
    calls,             \* ghost: engine calls made by the last operation
    lastOp,            \* ghost: the last exported operation and what it returned
    destroyed,         \* ghost: handles whose view has been destroyed
    pushes             \* ghost: queue pushes since the last Tick

viewVars == <<initRc, g_worker_started, g_renderer, g_views, g_view_count, calls,
              lastOp, destroyed, pushes>>

(* ------------------------------------------------------------------ *)
(* Part III: state of the Go package                                   *)
(* ------------------------------------------------------------------ *)
VARIABLES
    uis,               \* the UltralightUI objects: viewID and closed
    viewCount,         \* bridge.go's count of registered views
    host,              \* ui.go's input routing: focusedViewID, the cursor offset,
                       \* the frame's input, each object's bounds and mouse state
    dest,              \* the host's pixel buffer (ui.pixels): its bytes, and the
                       \* offsets the last ul_view_copy_pixels_rgba call wrote
    msgbuf,            \* what the last message poll gave the host
    g_vfs_files,       \* the VFS table: entries 0 .. g_vfs_count-1, in order
    disk,              \* the files under the base directory
    fsOut,             \* the last VFS call: its path and what it returned
    thr                \* the calls that run beside the worker without a lock, step
                       \* by step: where each thread is and the memory it shares

goObjs == <<uis, viewCount, host>>
vfsVars == <<g_vfs_files, disk, fsOut>>
goVars == <<goObjs, dest, msgbuf, vfsVars, thr>>

vars == <<chanVars, viewVars, goVars>>

CMD_NONE == "CMD_NONE"
CMD_CREATE_VIEW == "CMD_CREATE_VIEW"
CMD_CREATE_WITH_HTML == "CMD_CREATE_WITH_HTML"

\* the commands the calling threads of Part I submit (both publish a result)
ChanCmds == {CMD_CREATE_VIEW, CMD_CREATE_WITH_HTML}

\* identity of thread t's k-th call; also the value it passes as arguments
CallId(t, k) == t * 10 + k
NoCall == CallId(0, 0)
\* the call thread t is in (or last made)
CurCall(t) == CallId(t, ncalls[t])

\* calls started so far by threads 1..n
RECURSIVE SumCalls(_)
SumCalls(n) ==
    IF n = 0 THEN 0 ELSE ncalls[n] + SumCalls(n - 1)

\* the channel before the first command: both builds, the worker waiting
InitChan ==
    /\ platform \in {"posix", "win32"}
    /\ pc = [t \in Threads |-> "idle"]
    /\ ncalls = [t \in Threads |-> 0]
    /\ g_cmd_type = CMD_NONE
    /\ g_cmd_str_arg = 0
    /\ g_cmd_int1 = 0
    /\ g_cmd_int2 = 0
    /\ g_cmd_owner = NoCall
    /\ g_cmd_result = 0
    /\ g_cmd_ready = 0
    /\ g_cmd_done = 0
    /\ g_cmd_mutex = 0
    /\ g_cmd_event = FALSE
    /\ g_done_event = FALSE
    /\ wpc = "wait"
    /\ wcmd = CMD_NONE
    /\ wowner = NoCall
    /\ submitted = <<>>
    /\ executed = <<>>
    /\ got = [t \in Threads |-> 0]

(* ---------------- POSIX send_cmd ---------------- *)

\* pthread_mutex_lock; write the four mailbox fields; g_cmd_ready = 1;
\* pthread_cond_signal(&g_cmd_cond).  One step: the mutex is held throughout.
send_cmd_post(t, cmd) ==
    /\ platform = "posix"
    /\ t \in callers
    /\ pc[t] = "idle"
    /\ SumCalls(NThreads) < MaxCalls
    /\ g_cmd_mutex = 0
    /\ ncalls' = [ncalls EXCEPT ![t] = @ + 1]
    /\ g_cmd_mutex' = t
    /\ g_cmd_str_arg' = CallId(t, ncalls[t] + 1)
    /\ g_cmd_int1' = CallId(t, ncalls[t] + 1)
    /\ g_cmd_int2' = CallId(t, ncalls[t] + 1)
    /\ g_cmd_type' = cmd
    /\ g_cmd_owner' = CallId(t, ncalls[t] + 1)
    /\ g_cmd_ready' = 1
    /\ submitted' = Append(submitted, [call |-> CallId(t, ncalls[t] + 1), cmd |-> cmd])
    /\ pc' = [pc EXCEPT ![t] = "check"]
    /\ UNCHANGED <<platform, callers, g_cmd_result, g_cmd_done, g_cmd_event,
                   g_done_event, wpc, wcmd, wowner, executed, got>>
    /\ UNCHANGED <<viewVars, goVars>>

\* while (!g_cmd_done) pthread_cond_wait(&g_done_cond, &g_cmd_mutex):
\* the flag is clear, the mutex is released and the thread sleeps
send_cmd_wait(t) ==
    /\ platform = "posix"
    /\ pc[t] = "check"
    /\ g_cmd_mutex = t
    /\ g_cmd_done = 0
    /\ g_cmd_mutex' = 0
    /\ pc' = [pc EXCEPT ![t] = "waiting"]
    /\ UNCHANGED <<platform, callers, ncalls, g_cmd_type, g_cmd_str_arg, g_cmd_int1,
                   g_cmd_int2, g_cmd_owner, g_cmd_result, g_cmd_ready, g_cmd_done,
                   g_cmd_event, g_done_event, wpc, wcmd, wowner, submitted,
                   executed, got>>
    /\ UNCHANGED <<viewVars, goVars>>

\* pthread_cond_wait returns (signalled, or spuriously) with the mutex held
\* again; a wake-up that finds the flag clear goes back to sleep at once, so
\* only the wake-ups that find it set are steps
send_cmd_wake(t) ==
    /\ platform = "posix"
    /\ pc[t] = "waiting"
    /\ g_cmd_mutex = 0
    /\ g_cmd_done = 1
    /\ g_cmd_mutex' = t
    /\ pc' = [pc EXCEPT ![t] = "check"]
    /\ UNCHANGED <<platform, callers, ncalls, g_cmd_type, g_cmd_str_arg, g_cmd_int1,
                   g_cmd_int2, g_cmd_owner, g_cmd_result, g_cmd_ready, g_cmd_done,
                   g_cmd_event, g_done_event, wpc, wcmd, wowner, submitted,
                   executed, got>>
    /\ UNCHANGED <<viewVars, goVars>>

\* send_cmd_return with the `g_cmd_done = 0` left out
send_cmd_return_keeps_done(t) ==
    /\ platform = "posix"
    /\ pc[t] = "check"
    /\ g_cmd_mutex = t
    /\ g_cmd_done = 1
    /\ g_cmd_mutex' = 0
    /\ pc' = [pc EXCEPT ![t] = "ret"]
    /\ UNCHANGED <<platform, callers, ncalls, g_cmd_type, g_cmd_str_arg, g_cmd_int1,
                   g_cmd_int2, g_cmd_owner, g_cmd_result, g_cmd_ready, g_cmd_done,
                   g_cmd_event, g_done_event, wpc, wcmd, wowner, submitted,
                   executed, got>>
    /\ UNCHANGED <<viewVars, goVars>>

\* the loop exits: g_cmd_done = 0; pthread_mutex_unlock; send_cmd returns
send_cmd_return(t) ==
    /\ platform = "posix"
    /\ pc[t] = "check"
    /\ g_cmd_mutex = t
    /\ g_cmd_done = 1
    /\ g_cmd_done' = 0
    /\ g_cmd_mutex' = 0
    /\ pc' = [pc EXCEPT ![t] = "ret"]
    /\ UNCHANGED <<platform, callers, ncalls, g_cmd_type, g_cmd_str_arg, g_cmd_int1,
                   g_cmd_int2, g_cmd_owner, g_cmd_result, g_cmd_ready,
                   g_cmd_event, g_done_event, wpc, wcmd, wowner, submitted,
                   executed, got>>
    /\ UNCHANGED <<viewVars, goVars>>

(* ---------------- POSIX worker_thread_proc ---------------- *)

\* lock; while (!g_cmd_ready) wait; g_cmd_ready = 0; cmd = g_cmd_type;
\* g_cmd_type = CMD_NONE; unlock
worker_take ==
    /\ platform = "posix"
    /\ wpc = "wait"
    /\ g_cmd_mutex = 0
    /\ g_cmd_ready = 1
    /\ g_cmd_ready' = 0
    /\ wcmd' = g_cmd_type
    /\ wowner' = g_cmd_owner
    /\ g_cmd_type' = CMD_NONE
    /\ g_cmd_owner' = NoCall
    /\ wpc' = "exec"
    /\ UNCHANGED <<platform, callers, pc, ncalls, g_cmd_str_arg, g_cmd_int1, g_cmd_int2,
                   g_cmd_result, g_cmd_done, g_cmd_mutex, g_cmd_event, g_done_event,
                   submitted, executed, got>>
    /\ UNCHANGED <<viewVars, goVars>>

\* switch (cmd): the worker_do_* function runs outside the mutex and reads
\* g_cmd_int1 / g_cmd_int2 / g_cmd_str_arg as they are now; `default: break`
\* executes nothing
worker_exec ==
    /\ wpc = "exec"
    /\ IF wcmd = CMD_NONE
         THEN UNCHANGED <<executed, g_cmd_result>>
         ELSE /\ executed' = Append(executed,
                     [call |-> wowner, cmd |-> wcmd, arg |-> g_cmd_int1])
              /\ g_cmd_result' = wowner
    /\ wpc' = "finish"
    /\ UNCHANGED <<platform, callers, pc, ncalls, g_cmd_type, g_cmd_str_arg, g_cmd_int1,
                   g_cmd_int2, g_cmd_owner, g_cmd_ready, g_cmd_done, g_cmd_mutex,
                   g_cmd_event, g_done_event, wcmd, wowner, submitted, got>>
    /\ UNCHANGED <<viewVars, goVars>>

\* lock; g_cmd_done = 1; pthread_cond_signal(&g_done_cond); unlock
worker_done ==
    /\ platform = "posix"
    /\ wpc = "finish"
    /\ g_cmd_mutex = 0
    /\ g_cmd_done' = 1
    /\ wpc' = "wait"
    /\ UNCHANGED <<platform, callers, pc, ncalls, g_cmd_type, g_cmd_str_arg, g_cmd_int1,
                   g_cmd_int2, g_cmd_owner, g_cmd_result, g_cmd_ready, g_cmd_mutex,
                   g_cmd_event, g_done_event, wcmd, wowner, submitted, executed, got>>
    /\ UNCHANGED <<viewVars, goVars>>

(* ---------------- Win32 send_cmd ---------------- *)

\* the four mailbox stores, no lock
send_cmd_write_w32(t, cmd) ==
    /\ platform = "win32"
    /\ t \in callers
    /\ pc[t] = "idle"
    /\ SumCalls(NThreads) < MaxCalls
    /\ ncalls' = [ncalls EXCEPT ![t] = @ + 1]
    /\ g_cmd_str_arg' = CallId(t, ncalls[t] + 1)
    /\ g_cmd_int1' = CallId(t, ncalls[t] + 1)
    /\ g_cmd_int2' = CallId(t, ncalls[t] + 1)
    /\ g_cmd_type' = cmd
    /\ g_cmd_owner' = CallId(t, ncalls[t] + 1)
    /\ submitted' = Append(submitted, [call |-> CallId(t, ncalls[t] + 1), cmd |-> cmd])
    /\ pc' = [pc EXCEPT ![t] = "written"]
    /\ UNCHANGED <<platform, callers, g_cmd_result, g_cmd_ready, g_cmd_done, g_cmd_mutex,
                   g_cmd_event, g_done_event, wpc, wcmd, wowner, executed, got>>
    /\ UNCHANGED <<viewVars, goVars>>

\* SetEvent(g_cmd_event), then WaitForSingleObject(g_done_event) begins
send_cmd_set_w32(t) ==
    /\ platform = "win32"
    /\ pc[t] = "written"
    /\ g_cmd_event' = TRUE
    /\ pc' = [pc EXCEPT ![t] = "waiting"]
    /\ UNCHANGED <<platform, callers, ncalls, g_cmd_type, g_cmd_str_arg, g_cmd_int1,
                   g_cmd_int2, g_cmd_owner, g_cmd_result, g_cmd_ready, g_cmd_done,
                   g_cmd_mutex, g_done_event, wpc, wcmd, wowner, submitted,
                   executed, got>>
    /\ UNCHANGED <<viewVars, goVars>>

\* WaitForSingleObject(g_done_event) is satisfied and resets the event
send_cmd_return_w32(t) ==
    /\ platform = "win32"
    /\ pc[t] = "waiting"
    /\ g_done_event
    /\ g_done_event' = FALSE
    /\ pc' = [pc EXCEPT ![t] = "ret"]
    /\ UNCHANGED <<platform, callers, ncalls, g_cmd_type, g_cmd_str_arg, g_cmd_int1,
                   g_cmd_int2, g_cmd_owner, g_cmd_result, g_cmd_ready, g_cmd_done,
                   g_cmd_mutex, g_cmd_event, wpc, wcmd, wowner, submitted,
                   executed, got>>
    /\ UNCHANGED <<viewVars, goVars>>

(* ---------------- Win32 worker_thread_proc ---------------- *)

\* WaitForSingleObject(g_cmd_event) is satisfied and resets the event;
\* cmd = g_cmd_type; g_cmd_type = CMD_NONE
worker_take_w32 ==
    /\ platform = "win32"
    /\ wpc = "wait"
    /\ g_cmd_event
    /\ g_cmd_event' = FALSE
    /\ wcmd' = g_cmd_type
    /\ wowner' = g_cmd_owner
    /\ g_cmd_type' = CMD_NONE
    /\ g_cmd_owner' = NoCall
    /\ wpc' = "exec"
    /\ UNCHANGED <<platform, callers, pc, ncalls, g_cmd_str_arg, g_cmd_int1, g_cmd_int2,
                   g_cmd_result, g_cmd_ready, g_cmd_done, g_cmd_mutex, g_done_event,
                   submitted, executed, got>>
    /\ UNCHANGED <<viewVars, goVars>>

\* SetEvent(g_done_event)
worker_done_w32 ==
    /\ platform = "win32"
    /\ wpc = "finish"
    /\ g_done_event' = TRUE
    /\ wpc' = "wait"
    /\ UNCHANGED <<platform, callers, pc, ncalls, g_cmd_type, g_cmd_str_arg, g_cmd_int1,
                   g_cmd_int2, g_cmd_owner, g_cmd_result, g_cmd_ready, g_cmd_done,
                   g_cmd_mutex, g_cmd_event, wcmd, wowner, submitted, executed, got>>
    /\ UNCHANGED <<viewVars, goVars>>

(* ---------------- the exported create call around send_cmd ---------------- *)

\* `return g_cmd_result;` after send_cmd has returned (no lock is held)
ul_create_view_return(t) ==
    /\ pc[t] = "ret"
    /\ got' = [got EXCEPT ![t] = g_cmd_result]
    /\ pc' = [pc EXCEPT ![t] = "idle"]
    /\ UNCHANGED <<platform, callers, ncalls, g_cmd_type, g_cmd_str_arg, g_cmd_int1,
                   g_cmd_int2, g_cmd_owner, g_cmd_result, g_cmd_ready, g_cmd_done,
                   g_cmd_mutex, g_cmd_event, g_done_event, wpc, wcmd, wowner,
                   submitted, executed>>
    /\ UNCHANGED <<viewVars, goVars>>

NextChan ==
    \/ \E t \in Threads, cmd \in ChanCmds : send_cmd_post(t, cmd)
    \/ \E t \in Threads : send_cmd_wait(t)
    \/ \E t \in Threads : send_cmd_wake(t)
    \/ \E t \in Threads : send_cmd_return(t)
    \/ \E t \in Threads, cmd \in ChanCmds : send_cmd_write_w32(t, cmd)
    \/ \E t \in Threads : send_cmd_set_w32(t)
    \/ \E t \in Threads : send_cmd_return_w32(t)
    \/ \E t \in Threads : ul_create_view_return(t)
    \/ worker_take
    \/ worker_exec
    \/ worker_done
    \/ worker_take_w32
    \/ worker_done_w32

(* ------------------------------------------------------------------ *)
(* Part II: the slot table and the worker_do_* functions               *)
(* ------------------------------------------------------------------ *)

\* slots of the view table (16 in the source, scaled)
MAX_VIEWS == 2
\* queue capacities (64, 16, 32, 32 in the source, scaled)
MOUSE_QUEUE_MAX == 2
SCROLL_QUEUE_MAX == 1
KEY_QUEUE_MAX == 2
JS_QUEUE_MAX == 2
\* bytes of one script buffer (8192 in the source, scaled)
JS_QUEUE_BUFLEN == 3
\* messages a view's queue holds (64 in the source, scaled)
MSG_QUEUE_MAX == 2
\* bytes of one message buffer (8192 in the source, scaled)
MSG_QUEUE_BUFLEN == 8
\* queue pushes the calling thread makes between two Ticks
MaxPushes == 3
\* the ghost tick counter of an asynchronously created view saturates here
TickCap == 5

Slots == 0 .. (MAX_VIEWS - 1)
\* handles a caller may pass: every slot, and one value out of range on each side
Handles == -1 .. MAX_VIEWS

NotCalled == 1

\* memset(g_views, 0, sizeof(g_views)); the gh_ fields and dirty are not
\* fields of ViewSlot: gh_async / gh_ticks record how and how long ago the
\* occupant was created, gh_pushed the push calls since the last Tick (per
\* queue, and in `order` the queues of the items stored, in storing order),
\* gh_sent the messages the occupant's queue accepted and no poll took yet, and
\* dirty / locked are the engine's dirty-bounds and pixel-lock state of the
\* slot's surface; gh_installed: the view's current script context has
\* window.__goSend (a page load starts a new context, without it)
ZeroSlot ==
    [ view |-> "NULL", surface |-> "NULL", width |-> 0, height |-> 0, used |-> FALSE,
      mouse_queue |-> <<>>, scroll_queue |-> <<>>, key_queue |-> <<>>, js_queue |-> <<>>,
      load_phase |-> 0, phase_counter |-> 0, pending_load_str |-> "NULL",
      pending_is_url |-> FALSE, js_bound |-> FALSE,
      msg_queue |-> [i \in 0 .. (MSG_QUEUE_MAX - 1) |-> <<>>],
      msg_lens |-> [i \in 0 .. (MSG_QUEUE_MAX - 1) |-> 0],
      msg_head |-> 0, msg_tail |-> 0, msg_count |-> 0, gh_sent |-> <<>>,
      dirty |-> FALSE, locked |-> FALSE, gh_async |-> FALSE, gh_ticks |-> 0,
      gh_installed |-> FALSE,
      gh_pushed |-> [mouse |-> <<>>, scroll |-> <<>>, key |-> <<>>, js |-> <<>>,
                    order |-> <<>>] ]

\* one engine call: the function, the thread that made it, the slot, the arguments
Call(fn, by, vid, arg) == [fn |-> fn, by |-> by, vid |-> vid, arg |-> arg]
W(fn, vid) == Call(fn, "worker", vid, <<>>)

\* what a worker_do_* function leaves behind
Out(views, count, cs, rc) == [views |-> views, count |-> count, calls |-> cs, rc |-> rc]

\* FreeSlot that hands out the last slot again when none is free
FreeSlot_reuses_last(views) ==
    IF \E i \in Slots : ~views[i].used
      THEN CHOOSE i \in Slots : ~views[i].used /\ \A j \in Slots : j < i => views[j].used
      ELSE MAX_VIEWS - 1

\* for (vid = 0; vid < MAX_VIEWS; vid++) if (!g_views[vid].used) break;
FreeSlot(views) ==
    IF \E i \in Slots : ~views[i].used
      THEN CHOOSE i \in Slots : ~views[i].used /\ \A j \in Slots : j < i => views[j].used
      ELSE MAX_VIEWS

\* setup_js_bindings: false when the view's script context is not there yet
setup_js_bindings(v, ctxOk) ==
    IF ~v.used THEN v
    ELSE IF ~ctxOk THEN v
    ELSE [v EXCEPT !.js_bound = TRUE, !.gh_installed = TRUE]

setup_js_calls(v, vid, ctxOk) ==
    IF ~v.used THEN <<>>
    ELSE IF ~ctxOk THEN <<W("ulViewLockJSContext", vid)>>
    ELSE <<W("ulViewLockJSContext", vid), W("JSObjectSetProperty", vid),
           W("ulViewUnlockJSContext", vid), W("ulViewEvaluateScript", vid)>>

\* the assignments every create path makes once the engine view exists
NewSlot(v, width, height) ==
    [v EXCEPT !.view = "view", !.surface = "surface", !.width = width, !.height = height,
              !.used = TRUE, !.js_bound = FALSE, !.gh_installed = FALSE,
              !.mouse_queue = <<>>, !.scroll_queue = <<>>, !.key_queue = <<>>,
              !.js_queue = <<>>,
              !.msg_head = 0, !.msg_tail = 0, !.msg_count = 0, !.gh_sent = <<>>,
              !.dirty = FALSE, !.gh_async = FALSE, !.gh_ticks = 0,
              !.gh_pushed = ZeroSlot.gh_pushed]

CreateCalls(vid) ==
    <<W("ulCreateViewConfig", vid), W("ulCreateView", vid), W("ulDestroyViewConfig", vid),
      W("ulViewGetSurface", vid), W("ulViewSetConsoleCallback", vid), W("ulViewFocus", vid)>>

CreateFailCalls(vid) ==
    <<W("ulCreateViewConfig", vid), W("ulCreateView", vid), W("ulDestroyViewConfig", vid)>>

worker_do_create_view(views, count, width, height, engOk, ctxOk) ==
    LET vid == FreeSlot(views) IN
    IF vid >= MAX_VIEWS THEN Out(views, count, <<>>, -1)
    ELSE IF ~engOk
      THEN Out([views EXCEPT ![vid].view = "NULL"], count, CreateFailCalls(vid), -11)
    ELSE LET v1 == NewSlot(views[vid], width, height) IN
         Out([views EXCEPT ![vid] = setup_js_bindings(v1, ctxOk)], count + 1,
             CreateCalls(vid) \o <<W("ulUpdate", vid), W("ulRender", vid)>>
                 \o setup_js_calls(v1, vid, ctxOk),
             vid)

\* worker_do_destroy_view without the `!g_views[vid].used` early return
worker_do_destroy_view_unguarded(views, count, vid) ==
    IF vid < 0 \/ vid >= MAX_VIEWS THEN Out(views, count, <<>>, 0)
    ELSE Out([views EXCEPT ![vid].view = "NULL", ![vid].surface = "NULL",
                           ![vid].used = FALSE, ![vid].js_bound = FALSE,
                           ![vid].load_phase = 0, ![vid].pending_load_str = "NULL",
                           ![vid].dirty = FALSE, ![vid].locked = FALSE,
                           ![vid].gh_sent = <<>>, ![vid].gh_async = FALSE,
                           ![vid].gh_installed = FALSE,
                           ![vid].gh_ticks = 0, ![vid].gh_pushed = ZeroSlot.gh_pushed],
             count - 1,
             IF views[vid].view # "NULL" THEN <<W("ulDestroyView", vid)>> ELSE <<>>,
             0)

\* worker_do_destroy_view without `v->load_phase = 0`
worker_do_destroy_view_keeps_phase(views, count, vid) ==
    IF vid < 0 \/ vid >= MAX_VIEWS THEN Out(views, count, <<>>, 0)
    ELSE IF ~views[vid].used THEN Out(views, count, <<>>, 0)
    ELSE Out([views EXCEPT ![vid].view = "NULL", ![vid].surface = "NULL",
                           ![vid].used = FALSE, ![vid].js_bound = FALSE,
                           ![vid].pending_load_str = "NULL",
                           ![vid].dirty = FALSE, ![vid].locked = FALSE,
                           ![vid].gh_sent = <<>>, ![vid].gh_async = FALSE,
                           ![vid].gh_installed = FALSE,
                           ![vid].gh_ticks = 0, ![vid].gh_pushed = ZeroSlot.gh_pushed],
             count - 1,
             IF views[vid].view # "NULL" THEN <<W("ulDestroyView", vid)>> ELSE <<>>,
             0)

worker_do_destroy_view(views, count, vid) ==
    IF vid < 0 \/ vid >= MAX_VIEWS THEN Out(views, count, <<>>, 0)
    ELSE IF ~views[vid].used THEN Out(views, count, <<>>, 0)
    ELSE Out([views EXCEPT ![vid].view = "NULL", ![vid].surface = "NULL",
                           ![vid].used = FALSE, ![vid].js_bound = FALSE,
                           ![vid].load_phase = 0, ![vid].pending_load_str = "NULL",
                           ![vid].dirty = FALSE, ![vid].locked = FALSE,
                           ![vid].gh_sent = <<>>, ![vid].gh_async = FALSE,
                           ![vid].gh_installed = FALSE,
                           ![vid].gh_ticks = 0, ![vid].gh_pushed = ZeroSlot.gh_pushed],
             count - 1,
             IF views[vid].view # "NULL" THEN <<W("ulDestroyView", vid)>> ELSE <<>>,
             0)

worker_do_load(views, count, vid, str, is_url, ctxOk) ==
    IF vid < 0 \/ vid >= MAX_VIEWS THEN Out(views, count, <<>>, 0)
    ELSE IF ~views[vid].used THEN Out(views, count, <<>>, 0)
    ELSE Out([views EXCEPT ![vid] =
                  setup_js_bindings([views[vid] EXCEPT !.gh_installed = FALSE], ctxOk)],
             count,
             <<W(IF is_url THEN "ulViewLoadURL" ELSE "ulViewLoadHTML", vid),
               W("ulUpdate", vid), W("ulUpdate", vid), W("ulUpdate", vid),
               W("ulRefreshDisplay", vid), W("ulRender", vid)>>
                 \o setup_js_calls(views[vid], vid, ctxOk),
             0)

worker_do_create_and_load(views, count, width, height, str, is_url, engOk) ==
    LET vid == FreeSlot(views) IN
    IF vid >= MAX_VIEWS THEN Out(views, count, <<>>, -1)
    ELSE IF ~engOk
      THEN Out([views EXCEPT ![vid].view = "NULL"], count, CreateFailCalls(vid), -11)
    ELSE LET v1 == NewSlot(views[vid], width, height) IN
         Out([views EXCEPT ![vid] =
                  [v1 EXCEPT !.pending_load_str = str, !.pending_is_url = is_url,
                             !.load_phase = 1, !.phase_counter = 0, !.gh_async = TRUE]],
             count + 1, CreateCalls(vid), vid)

worker_do_create_with_content(views, count, width, height, content, is_url, engOk, ctxOk) ==
    LET vid == FreeSlot(views) IN
    IF vid >= MAX_VIEWS THEN Out(views, count, <<>>, -1)
    ELSE IF ~engOk
      THEN Out([views EXCEPT ![vid].view = "NULL"], count, CreateFailCalls(vid), -11)
    ELSE LET v1 == [NewSlot(views[vid], width, height) EXCEPT
                        !.load_phase = 0, !.phase_counter = 0,
                        !.pending_load_str = "NULL"] IN
         Out([views EXCEPT ![vid] = setup_js_bindings(v1, ctxOk)], count + 1,
             CreateCalls(vid)
                 \o (IF content # ""
                       THEN <<W(IF is_url THEN "ulViewLoadURL" ELSE "ulViewLoadHTML", vid)>>
                       ELSE <<>>)
                 \o <<W("ulUpdate", vid)>> \o setup_js_calls(v1, vid, ctxOk),
             vid)

(* ---------------- worker_do_tick ---------------- *)

\* AdvancePhase with the post-load window one Tick longer (`>` for `>=`)
AdvancePhase_late(v, ctxOk) ==
    IF ~v.used \/ v.load_phase = 0 THEN v
    ELSE LET c == v.phase_counter + 1 IN
         IF v.load_phase = 1 /\ c >= 2
           THEN [v EXCEPT !.pending_load_str = "NULL", !.load_phase = 2,
                          !.phase_counter = 0]
         ELSE IF v.load_phase = 2 /\ c > 3
           THEN [setup_js_bindings([v EXCEPT !.phase_counter = c], ctxOk)
                    EXCEPT !.load_phase = 0]
         ELSE [v EXCEPT !.phase_counter = c]

\* AdvancePhase without `free(v->pending_load_str); v->pending_load_str = NULL`
AdvancePhase_keeps_content(v, ctxOk) ==
    IF ~v.used \/ v.load_phase = 0 THEN v
    ELSE LET c == v.phase_counter + 1 IN
         IF v.load_phase = 1 /\ c >= 2
           THEN [v EXCEPT !.load_phase = 2, !.phase_counter = 0]
         ELSE IF v.load_phase = 2 /\ c >= 3
           THEN [setup_js_bindings([v EXCEPT !.phase_counter = c], ctxOk)
                    EXCEPT !.load_phase = 0]
         ELSE [v EXCEPT !.phase_counter = c]

\* first loop of worker_do_tick, one slot: the asynchronous load state machine
AdvancePhase(v, ctxOk) ==
    IF ~v.used \/ v.load_phase = 0 THEN v
    ELSE LET c == v.phase_counter + 1 IN
         IF v.load_phase = 1 /\ c >= 2
           THEN [v EXCEPT !.pending_load_str = "NULL", !.load_phase = 2,
                          !.phase_counter = 0]
         ELSE IF v.load_phase = 2 /\ c >= 3
           THEN [setup_js_bindings([v EXCEPT !.phase_counter = c], ctxOk)
                    EXCEPT !.load_phase = 0]
         ELSE [v EXCEPT !.phase_counter = c]

AdvanceCalls(v, vid, ctxOk) ==
    IF ~v.used \/ v.load_phase = 0 THEN <<>>
    ELSE LET c == v.phase_counter + 1 IN
         IF v.load_phase = 1 /\ c >= 2
           THEN <<W("ulRender", vid)>>
                \o (IF v.pending_load_str # "NULL"
                      THEN <<Call(IF v.pending_is_url THEN "ulViewLoadURL"
                                  ELSE "ulViewLoadHTML", "worker", vid,
                                  <<v.pending_load_str>>)>>
                      ELSE <<>>)
         ELSE IF v.load_phase = 2 /\ c >= 3
           THEN <<W("ulRender", vid)>> \o setup_js_calls(v, vid, ctxOk)
         ELSE <<>>

\* clamp of one mouse coordinate into [0, size)
Clamp(x, size) ==
    LET x0 == IF x < 0 THEN 0 ELSE x IN
    IF size > 0 /\ x0 >= size THEN size - 1 ELSE x0

\* host key type (0=RawKeyDown,1=KeyDown,2=KeyUp,3=Char) to the SDK's enum
KeyTypeMap(t) == IF t = 0 THEN 2 ELSE IF t = 1 THEN 0 ELSE IF t = 2 THEN 1 ELSE 3

MouseCall(v, vid, e) ==
    Call("ulViewFireMouseEvent", "worker", vid,
         <<e.type, Clamp(e.x, v.width), Clamp(e.y, v.height), e.button>>)
ScrollCall(vid, e) == Call("ulViewFireScrollEvent", "worker", vid, <<e.type, e.dx, e.dy>>)
KeyCall(vid, e) ==
    Call("ulViewFireKeyEvent", "worker", vid, <<KeyTypeMap(e.type), e.mods, e.vk>> \o e.text)
ScriptCall(vid, e) == Call("ulViewEvaluateScript", "worker", vid, <<e.name, e.len>>)

\* second loop of worker_do_tick, one slot: the retry of the bindings and the
\* drain of the four queues
DrainSlot(v, ctxOk) ==
    IF ~v.used \/ v.view = "NULL" THEN v
    ELSE [(IF ~v.js_bound /\ v.load_phase = 0 THEN setup_js_bindings(v, ctxOk) ELSE v)
             EXCEPT !.mouse_queue = <<>>, !.scroll_queue = <<>>, !.key_queue = <<>>,
                    !.js_queue = <<>>]

DrainCalls(v, vid, ctxOk) ==
    IF ~v.used \/ v.view = "NULL" THEN <<>>
    ELSE (IF ~v.js_bound /\ v.load_phase = 0 THEN setup_js_calls(v, vid, ctxOk) ELSE <<>>)
         \o [i \in 1..Len(v.mouse_queue) |-> MouseCall(v, vid, v.mouse_queue[i])]
         \o [i \in 1..Len(v.scroll_queue) |-> ScrollCall(vid, v.scroll_queue[i])]
         \o [i \in 1..Len(v.key_queue) |-> KeyCall(vid, v.key_queue[i])]
         \o [i \in 1..Len(v.js_queue) |-> ScriptCall(vid, v.js_queue[i])]

\* the calls f(0) \o f(1) \o ... \o f(n-1) of a loop over the slots
RECURSIVE LoopCalls(_, _, _, _)
LoopCalls(Kind, views, ctxSet, n) ==
    IF n = 0 THEN <<>>
    ELSE LoopCalls(Kind, views, ctxSet, n - 1)
         \o (IF Kind = "advance"
               THEN AdvanceCalls(views[n - 1], n - 1, (n - 1) \in ctxSet)
               ELSE DrainCalls(views[n - 1], n - 1, (n - 1) \in ctxSet))

\* ghost bookkeeping of one Tick on one slot; dirtySet: the surfaces the
\* engine's render pass painted
TickGhost(v0, v, vid, dirtySet) ==
    [v EXCEPT !.gh_ticks = IF v0.used /\ v0.gh_async /\ @ < TickCap THEN @ + 1 ELSE @,
              !.gh_pushed = ZeroSlot.gh_pushed,
              !.dirty = IF v0.used /\ vid \in dirtySet THEN TRUE ELSE @]

worker_do_tick(views, count, ctxSet, dirtySet) ==
    LET v1 == [i \in Slots |-> AdvancePhase(views[i], i \in ctxSet)]
        v2 == [i \in Slots |-> DrainSlot(v1[i], i \in ctxSet)]
    IN  Out([i \in Slots |-> TickGhost(views[i], v2[i], i, dirtySet)], count,
            LoopCalls("advance", views, ctxSet, MAX_VIEWS)
                \o LoopCalls("drain", v1, ctxSet, MAX_VIEWS)
                \o <<W("ulUpdate", -1), W("ulRefreshDisplay", -1), W("ulRender", -1)>>,
            0)

(* ------------------------------------------------------------------ *)
(* Part II: the exported operations, one action each.  A command that  *)
(* goes through send_cmd is one step here: the caller is blocked while *)
(* the worker runs it.                                                 *)
(* ------------------------------------------------------------------ *)

\* sizes and strings the callers pass
ViewSizes == {<<2, 1>>}
\* the sizes of the views whose pixels are read back
PixelSizes == {<<2, 1>>, <<1, 2>>}
Urls == {"NULL", "u"}
Htmls == {"NULL", "", "h"}
DestSizes == {0, 4, 8, 12}

InRange(h) == h >= 0 /\ h < MAX_VIEWS
\* view_id < 0 || view_id >= MAX_VIEWS || !g_views[view_id].used
BadHandle(h) == ~InRange(h) \/ ~g_views[h].used

Commit(op, h, views, count, cs, rc) ==
    /\ g_views' = views
    /\ g_view_count' = count
    /\ calls' = cs
    /\ lastOp' = [op |-> op, h |-> h, rc |-> rc]

\* an exported call that returns before it reaches send_cmd or the slot
Reject(op, h, rc) == Commit(op, h, g_views, g_view_count, <<>>, rc)

InitCalls ==
    <<W("ulEnablePlatformFontLoader", -1), W("ulPlatformSetFileSystem", -1),
      W("ulPlatformSetClipboard", -1), W("ulCreateConfig", -1),
      W("ulCreateRenderer", -1), W("ulDestroyConfig", -1)>>

\* an initializer that runs again once the worker has been stopped
ul_init_again(outcome) ==
    /\ initRc = NotCalled \/ ~g_worker_started
    /\ CASE outcome = "thread" ->
              /\ initRc' = -20
              /\ Commit("ul_init", -1, g_views, g_view_count,
                        <<Call("ulVersionString", "caller", -1, <<>>)>>, -20)
              /\ UNCHANGED <<g_worker_started, g_renderer, g_cmd_result>>
         [] OTHER ->
              /\ initRc' = 0
              /\ g_worker_started' = TRUE
              /\ g_renderer' = "renderer"
              /\ g_cmd_result' = 0
              /\ Commit("ul_init", -1, [i \in Slots |-> ZeroSlot], 0,
                        <<Call("ulVersionString", "caller", -1, <<>>)>> \o InitCalls, 0)
    /\ UNCHANGED <<destroyed, pushes, chanRest, goVars>>

\* ul_init, called once (ensureULInit's sync.Once).  outcome: where it fails
ul_init(outcome) ==
    /\ initRc = NotCalled
    /\ CASE outcome = "libs" ->
              /\ initRc' = -1
              /\ Reject("ul_init", -1, -1)
              /\ UNCHANGED <<g_worker_started, g_renderer, g_cmd_result>>
         [] outcome = "resolve" ->
              /\ initRc' = -100
              /\ Reject("ul_init", -1, -100)
              /\ UNCHANGED <<g_worker_started, g_renderer, g_cmd_result>>
         [] outcome = "thread" ->
              /\ initRc' = -20
              /\ Commit("ul_init", -1, g_views, g_view_count,
                        <<Call("ulVersionString", "caller", -1, <<>>)>>, -20)
              /\ UNCHANGED <<g_worker_started, g_renderer, g_cmd_result>>
         [] outcome = "renderer" ->
              /\ initRc' = -10
              /\ g_worker_started' = TRUE
              /\ g_renderer' = "NULL"
              /\ g_cmd_result' = -10
              /\ Commit("ul_init", -1, g_views, g_view_count,
                        <<Call("ulVersionString", "caller", -1, <<>>)>> \o InitCalls, -10)
         [] outcome = "ok" ->
              /\ initRc' = 0
              /\ g_worker_started' = TRUE
              /\ g_renderer' = "renderer"
              /\ g_cmd_result' = 0
              /\ Commit("ul_init", -1, [i \in Slots |-> ZeroSlot], 0,
                        <<Call("ulVersionString", "caller", -1, <<>>)>> \o InitCalls, 0)
    /\ UNCHANGED <<destroyed, pushes, chanRest, goVars>>

ul_create_view(width, height, engOk, ctxOk) ==
    /\ IF ~g_worker_started
         THEN Reject("ul_create_view", -1, -1) /\ UNCHANGED g_cmd_result
         ELSE LET r == worker_do_create_view(g_views, g_view_count, width, height,
                                             engOk, ctxOk) IN
              /\ Commit("ul_create_view", -1, r.views, r.count, r.calls, r.rc)
              /\ g_cmd_result' = r.rc
    /\ UNCHANGED <<initRc, g_worker_started, g_renderer, destroyed, pushes, chanRest, goVars>>

ul_destroy_view(h) ==
    /\ IF ~g_worker_started \/ ~InRange(h)
         THEN Reject("ul_destroy_view", h, 0) /\ UNCHANGED destroyed
         ELSE LET r == worker_do_destroy_view(g_views, g_view_count, h) IN
              /\ Commit("ul_destroy_view", h, r.views, r.count, r.calls, 0)
              /\ destroyed' = IF g_views[h].used THEN destroyed \cup {h} ELSE destroyed
    /\ UNCHANGED <<initRc, g_worker_started, g_renderer, g_cmd_result, pushes, chanRest, goVars>>

ul_view_load_html(h, html, ctxOk) ==
    /\ IF html = "NULL" \/ ~g_worker_started \/ ~InRange(h)
         THEN Reject("ul_view_load_html", h, 0)
         ELSE LET r == worker_do_load(g_views, g_view_count, h, html, FALSE, ctxOk) IN
              Commit("ul_view_load_html", h, r.views, r.count, r.calls, 0)
    /\ UNCHANGED <<initRc, g_worker_started, g_renderer, g_cmd_result, destroyed, pushes,
                   chanRest, goVars>>

ul_view_load_url(h, url, ctxOk) ==
    /\ IF url = "NULL" \/ ~g_worker_started \/ ~InRange(h)
         THEN Reject("ul_view_load_url", h, 0)
         ELSE LET r == worker_do_load(g_views, g_view_count, h, url, TRUE, ctxOk) IN
              Commit("ul_view_load_url", h, r.views, r.count, r.calls, 0)
    /\ UNCHANGED <<initRc, g_worker_started, g_renderer, g_cmd_result, destroyed, pushes,
                   chanRest, goVars>>

ul_create_view_async(width, height, url, engOk) ==
    /\ IF url = "NULL" \/ ~g_worker_started
         THEN Reject("ul_create_view_async", -1, -1) /\ UNCHANGED g_cmd_result
         ELSE LET r == worker_do_create_and_load(g_views, g_view_count, width, height,
                                                 url, TRUE, engOk) IN
              /\ Commit("ul_create_view_async", -1, r.views, r.count, r.calls, r.rc)
              /\ g_cmd_result' = r.rc
    /\ UNCHANGED <<initRc, g_worker_started, g_renderer, destroyed, pushes, chanRest, goVars>>

ul_create_view_with_html(width, height, html, engOk, ctxOk) ==
    /\ IF ~g_worker_started
         THEN Reject("ul_create_view_with_html", -1, -1) /\ UNCHANGED g_cmd_result
         ELSE LET r == worker_do_create_with_content(g_views, g_view_count, width, height,
                           IF html = "NULL" THEN "" ELSE html, FALSE, engOk, ctxOk) IN
              /\ Commit("ul_create_view_with_html", -1, r.views, r.count, r.calls, r.rc)
              /\ g_cmd_result' = r.rc
    /\ UNCHANGED <<initRc, g_worker_started, g_renderer, destroyed, pushes, chanRest, goVars>>

ul_create_view_with_url(width, height, url, engOk, ctxOk) ==
    /\ IF url = "NULL" \/ ~g_worker_started
         THEN Reject("ul_create_view_with_url", -1, -1) /\ UNCHANGED g_cmd_result
         ELSE LET r == worker_do_create_with_content(g_views, g_view_count, width, height,
                           url, TRUE, engOk, ctxOk) IN
              /\ Commit("ul_create_view_with_url", -1, r.views, r.count, r.calls, r.rc)
              /\ g_cmd_result' = r.rc
    /\ UNCHANGED <<initRc, g_worker_started, g_renderer, destroyed, pushes, chanRest, goVars>>

\* the value ul_view_is_ready(view_id) returns
is_ready(views, h) ==
    IF ~InRange(h) THEN 0
    ELSE IF ~views[h].used THEN 0
    ELSE IF views[h].load_phase = 0 THEN 1 ELSE 0

ul_view_is_ready(h) ==
    /\ Commit("ul_view_is_ready", h, g_views, g_view_count, <<>>, is_ready(g_views, h))
    /\ UNCHANGED <<initRc, g_worker_started, g_renderer, g_cmd_result, destroyed, pushes,
                   chanRest, goVars>>

ul_tick(ctxSet, dirtySet) ==
    /\ IF ~g_worker_started
         THEN Reject("ul_tick", -1, 0) /\ UNCHANGED pushes
         ELSE LET r == worker_do_tick(g_views, g_view_count, ctxSet, dirtySet) IN
              /\ Commit("ul_tick", -1, r.views, r.count, r.calls, 0)
              /\ pushes' = 0
    /\ UNCHANGED <<initRc, g_worker_started, g_renderer, g_cmd_result, destroyed, chanRest, goVars>>

(* ---------------- operations that never reach send_cmd ---------------- *)

C(fn, vid) == Call(fn, "caller", vid, <<>>)

\* frame of an operation that only reads, or only touches the slot table
Frame == UNCHANGED <<initRc, g_worker_started, g_renderer, g_cmd_result, destroyed,
                     chanRest, goVars>>

ul_view_get_width(h) ==
    /\ Commit("ul_view_get_width", h, g_views, g_view_count, <<>>,
              IF BadHandle(h) THEN 0 ELSE g_views[h].width)
    /\ UNCHANGED pushes
    /\ Frame

ul_view_get_height(h) ==
    /\ Commit("ul_view_get_height", h, g_views, g_view_count, <<>>,
              IF BadHandle(h) THEN 0 ELSE g_views[h].height)
    /\ UNCHANGED pushes
    /\ Frame

\* the surface's stride as the engine reports it: the surface of slot 0 is
\* tightly packed, the surface of a higher slot has padding after each row
RowPad(vid) == 4 * vid
RowBytes(v, vid) == v.width * 4 + RowPad(vid)

ul_view_get_row_bytes(h) ==
    /\ IF BadHandle(h) \/ g_views[h].surface = "NULL"
         THEN Reject("ul_view_get_row_bytes", h, 0)
         ELSE Commit("ul_view_get_row_bytes", h, g_views, g_view_count,
                     <<C("ulSurfaceGetRowBytes", h)>>, RowBytes(g_views[h], h))
    /\ UNCHANGED pushes
    /\ Frame

ul_view_get_pixels(h) ==
    /\ IF BadHandle(h) \/ g_views[h].surface = "NULL"
         THEN Reject("ul_view_get_pixels", h, 0)
         ELSE Commit("ul_view_get_pixels", h, [g_views EXCEPT ![h].locked = TRUE],
                     g_view_count, <<C("ulSurfaceLockPixels", h)>>, 1)
    /\ UNCHANGED pushes
    /\ Frame

ul_view_unlock_pixels(h) ==
    /\ IF BadHandle(h)
         THEN Reject("ul_view_unlock_pixels", h, 0)
         ELSE Commit("ul_view_unlock_pixels", h,
                     [g_views EXCEPT ![h].dirty = FALSE, ![h].locked = FALSE],
                     g_view_count,
                     <<C("ulSurfaceUnlockPixels", h), C("ulSurfaceClearDirtyBounds", h)>>, 0)
    /\ UNCHANGED pushes
    /\ Frame

\* bytes of the host's buffer a copy can reach
DestCap == 12
\* the buffer before the first copy
NoDest == [bytes |-> [i \in 0 .. (DestCap - 1) |-> 0], written |-> {}]

\* the byte at offset i of the locked pixels of slot vid's surface: every
\* offset of one surface holds a different byte
Src(vid, i) == (100 * vid + i + 1) % 256

\* dest[i] = b
Store(d, i, b) == [bytes |-> [d.bytes EXCEPT ![i] = b], written |-> d.written \cup {i}]

\* a row copied without exchanging the first and third byte of a pixel
RECURSIVE CopyRow_bgra(_, _, _, _, _, _)
CopyRow_bgra(d, vid, row, w, x, dstIdx) ==
    IF x >= w THEN d
    ELSE LET off == x * 4
             d0 == Store(d, dstIdx + 0, Src(vid, row + off + 0))
             d1 == Store(d0, dstIdx + 1, Src(vid, row + off + 1))
             d2 == Store(d1, dstIdx + 2, Src(vid, row + off + 2))
             d3 == Store(d2, dstIdx + 3, Src(vid, row + off + 3))
         IN  CopyRow_bgra(d3, vid, row, w, x + 1, dstIdx + 4)

\* for (x = 0; x < w; x++): one pixel B,G,R,A to R,G,B,A
RECURSIVE CopyRow(_, _, _, _, _, _)
CopyRow(d, vid, row, w, x, dstIdx) ==
    IF x >= w THEN d
    ELSE LET off == x * 4
             d0 == Store(d, dstIdx + 0, Src(vid, row + off + 2))
             d1 == Store(d0, dstIdx + 1, Src(vid, row + off + 1))
             d2 == Store(d1, dstIdx + 2, Src(vid, row + off + 0))
             d3 == Store(d2, dstIdx + 3, Src(vid, row + off + 3))
         IN  CopyRow(d3, vid, row, w, x + 1, dstIdx + 4)

\* for (y = 0; y < h; y++): row = src + y * rowBytes
RECURSIVE CopyRows(_, _, _, _, _, _, _)
CopyRows(d, vid, w, h, rowBytes, y, dstIdx) ==
    IF y >= h THEN d
    ELSE CopyRows(CopyRow(d, vid, y * rowBytes, w, 0, dstIdx),
                  vid, w, h, rowBytes, y + 1, dstIdx + 4 * w)

\* a rejection that leaves the surface locked
CopyRejected_keeps_lock(views, h) == [views EXCEPT ![h].locked = TRUE]

\* if (dest_size < needed) { pfn_SurfaceUnlockPixels(v->surface); return 0; }
CopyRejected(views, h) == [views EXCEPT ![h].locked = FALSE]

\* a copy that does not clear the dirty bounds
CopyDone_keeps_dirty(views, h) == [views EXCEPT ![h].locked = FALSE]

\* pfn_SurfaceUnlockPixels(v->surface); pfn_SurfaceClearDirtyBounds(v->surface)
CopyDone(views, h) == [views EXCEPT ![h].dirty = FALSE, ![h].locked = FALSE]

\* a return of the copy before the loop
NoCopy == dest' = [dest EXCEPT !.written = {}]

\* lockOk: ulSurfaceLockPixels returned the pixels
ul_view_copy_pixels_rgba(h, dest_size, lockOk) ==
    /\ IF BadHandle(h) \/ g_views[h].surface = "NULL"
         THEN Reject("ul_view_copy_pixels_rgba", h, 0) /\ NoCopy
       ELSE IF ~g_views[h].dirty
         THEN /\ Commit("ul_view_copy_pixels_rgba", h, g_views, g_view_count,
                        <<C("ulSurfaceGetDirtyBounds", h)>>, 0)
              /\ NoCopy
       ELSE IF ~lockOk
         THEN /\ Commit("ul_view_copy_pixels_rgba", h, g_views, g_view_count,
                        <<C("ulSurfaceGetDirtyBounds", h), C("ulSurfaceLockPixels", h)>>, 0)
              /\ NoCopy
       ELSE IF dest_size < g_views[h].width * g_views[h].height * 4
         THEN /\ Commit("ul_view_copy_pixels_rgba", h,
                        CopyRejected(g_views, h), g_view_count,
                        <<C("ulSurfaceGetDirtyBounds", h), C("ulSurfaceLockPixels", h),
                          C("ulSurfaceGetRowBytes", h), C("ulSurfaceUnlockPixels", h)>>, 0)
              /\ NoCopy
       ELSE /\ Commit("ul_view_copy_pixels_rgba", h, CopyDone(g_views, h), g_view_count,
                      <<C("ulSurfaceGetDirtyBounds", h), C("ulSurfaceLockPixels", h),
                        C("ulSurfaceGetRowBytes", h), C("ulSurfaceUnlockPixels", h),
                        C("ulSurfaceClearDirtyBounds", h)>>, 1)
            /\ dest' = CopyRows([dest EXCEPT !.written = {}], h, g_views[h].width,
                                g_views[h].height, RowBytes(g_views[h], h), 0, 0)
    /\ UNCHANGED <<initRc, g_worker_started, g_renderer, g_cmd_result, destroyed, pushes,
                   chanRest, goObjs, msgbuf, thr, vfsVars>>

(* ---------------- the four input queues ---------------- *)

\* what the callers push
MouseEvents == {[type |-> 0, x |-> 0, y |-> 0, button |-> 0],
                [type |-> 1, x |-> 5, y |-> 0, button |-> 1]}
ScrollEvents == {[type |-> 0, dx |-> 0, dy |-> 100], [type |-> 0, dx |-> 0, dy |-> -100]}
KeyEvents == {[type |-> 0, vk |-> 65, mods |-> 0, text |-> <<>>],
              [type |-> 3, vk |-> 65, mods |-> 0, text |-> <<97>>]}
\* a script: what it says and its strlen; "NULL" is the null pointer
Scripts == {[name |-> 1, len |-> 1], [name |-> 2, len |-> 1],
            [name |-> 3, len |-> JS_QUEUE_BUFLEN]}

\* the handles the pushes are made on: the first slot and one out of range
PushHandles == {0, MAX_VIEWS}

\* ghost: the push calls made on slot h's queue q since the last Tick
Pushed(views, h, q, e) ==
    [views EXCEPT ![h].gh_pushed[q] = Append(@, e)]

\* ghost: an item was stored in slot h's queue q
Queued(views, h, q) ==
    [views EXCEPT ![h].gh_pushed.order = Append(@, q)]

ul_view_fire_mouse(h, e) ==
    /\ pushes < MaxPushes
    /\ pushes' = pushes + 1
    /\ IF BadHandle(h)
         THEN Reject("ul_view_fire_mouse", h, 0)
       ELSE IF Len(g_views[h].mouse_queue) >= MOUSE_QUEUE_MAX
         THEN Commit("ul_view_fire_mouse", h, Pushed(g_views, h, "mouse", e),
                     g_view_count, <<>>, 0)
       ELSE Commit("ul_view_fire_mouse", h,
                   Queued(Pushed([g_views EXCEPT ![h].mouse_queue = Append(@, e)], h, "mouse", e),
                          h, "mouse"),
                   g_view_count, <<>>, 0)
    /\ Frame

ul_view_fire_scroll(h, e) ==
    /\ pushes < MaxPushes
    /\ pushes' = pushes + 1
    /\ IF BadHandle(h)
         THEN Reject("ul_view_fire_scroll", h, 0)
       ELSE IF Len(g_views[h].scroll_queue) >= SCROLL_QUEUE_MAX
         THEN Commit("ul_view_fire_scroll", h, Pushed(g_views, h, "scroll", e),
                     g_view_count, <<>>, 0)
       ELSE Commit("ul_view_fire_scroll", h,
                   Queued(Pushed([g_views EXCEPT ![h].scroll_queue = Append(@, e)], h, "scroll", e),
                          h, "scroll"),
                   g_view_count, <<>>, 0)
    /\ Frame

ul_view_fire_key(h, e) ==
    /\ pushes < MaxPushes
    /\ pushes' = pushes + 1
    /\ IF BadHandle(h)
         THEN Reject("ul_view_fire_key", h, 0)
       ELSE IF Len(g_views[h].key_queue) >= KEY_QUEUE_MAX
         THEN Commit("ul_view_fire_key", h, Pushed(g_views, h, "key", e),
                     g_view_count, <<>>, 0)
       ELSE Commit("ul_view_fire_key", h,
                   Queued(Pushed([g_views EXCEPT ![h].key_queue = Append(@, e)], h, "key", e),
                          h, "key"),
                   g_view_count, <<>>, 0)
    /\ Frame

ul_view_eval_js(h, js) ==
    /\ pushes < MaxPushes
    /\ pushes' = pushes + 1
    /\ IF BadHandle(h)
         THEN Reject("ul_view_eval_js", h, 0)
       ELSE IF Len(g_views[h].js_queue) >= JS_QUEUE_MAX \/ js.len >= JS_QUEUE_BUFLEN
         THEN Commit("ul_view_eval_js", h, Pushed(g_views, h, "js", js),
                     g_view_count, <<>>, 0)
       ELSE Commit("ul_view_eval_js", h,
                   Queued(Pushed([g_views EXCEPT ![h].js_queue = Append(@, js)], h, "js", js),
                          h, "js"),
                   g_view_count, <<>>, 0)
    /\ Frame

(* ---------------- the message queue, page script to host ---------------- *)

\* what page script sends: byte strings, the empty one among them
Messages == {<<>>, <<7>>, <<7, 8>>, <<7, 8, 9>>}
\* sends one Tick's scripts make
MaxSends == 3
\* bytes of the buffer pollMessage polls into (2048 in the source, scaled)
PollBufSize == 2

\* JSStringGetMaximumUTF8CStringSize: three bytes a character and the NUL
MaximumUTF8CStringSize(msg) == 3 * Len(msg) + 1

\* the slot whose cached context is the calling script's
CallbackSlots == {i \in Slots : g_views[i].used /\ g_views[i].view # "NULL"
                                /\ g_views[i].js_bound}

\* a send that evicts the oldest message when the queue is full
Enqueue_evicts(v, msg) ==
    IF MaximumUTF8CStringSize(msg) >= MSG_QUEUE_BUFLEN THEN v
    ELSE [v EXCEPT !.msg_queue[v.msg_head] = msg,
                   !.msg_lens[v.msg_head] = Len(msg),
                   !.msg_head = (v.msg_head + 1) % MSG_QUEUE_MAX,
                   !.msg_tail = IF v.msg_count < MSG_QUEUE_MAX THEN @
                                ELSE (@ + 1) % MSG_QUEUE_MAX,
                   !.msg_count = IF v.msg_count < MSG_QUEUE_MAX THEN @ + 1 ELSE @,
                   !.gh_sent = Append(@, msg)]

\* if (v->msg_count < MSG_QUEUE_MAX && maxLen < MSG_QUEUE_BUFLEN) { ... }
Enqueue(v, msg) ==
    IF v.msg_count < MSG_QUEUE_MAX /\ MaximumUTF8CStringSize(msg) < MSG_QUEUE_BUFLEN
      THEN [v EXCEPT !.msg_queue[v.msg_head] = msg,
                     !.msg_lens[v.msg_head] = Len(msg),
                     !.msg_head = (v.msg_head + 1) % MSG_QUEUE_MAX,
                     !.msg_count = @ + 1,
                     !.gh_sent = Append(@, msg)]
      ELSE v

\* the engine calls of one send
SendCalls(v, vid, msg) ==
    <<Call("JSValueToStringCopy", "worker", vid, msg),
      W("JSStringGetMaximumUTF8CStringSize", vid)>>
    \o (IF v.msg_count < MSG_QUEUE_MAX /\ MaximumUTF8CStringSize(msg) < MSG_QUEUE_BUFLEN
          THEN <<W("JSStringGetUTF8CString", vid)>> ELSE <<>>)
    \o <<W("JSStringRelease", vid)>>

\* window.__goSend(msg) called by the page of slot vid, on the worker thread
\* while a command runs
jsc_goSend_callback(vid, msg) ==
    /\ pushes < MaxSends
    /\ pushes' = pushes + 1
    /\ vid \in CallbackSlots
    /\ Commit("jsc_goSend_callback", vid, [g_views EXCEPT ![vid] = Enqueue(@, msg)],
              g_view_count, SendCalls(g_views[vid], vid, msg), 0)
    /\ Frame

\* the poll result before the first poll
NoMsg == [buf |-> <<>>, text |-> <<>>, ok |-> FALSE]

\* the first n bytes of s
Prefix(s, n) == SubSeq(s, 1, IF Len(s) < n THEN Len(s) ELSE n)

\* ul_view_get_message, and what pollMessage makes of its result: buf is what
\* the call copied, text and ok are pollMessage's two results
ul_view_get_message(h, buf_size) ==
    /\ IF BadHandle(h) \/ buf_size <= 0
         THEN Reject("ul_view_get_message", h, 0) /\ msgbuf' = NoMsg
       ELSE IF g_views[h].msg_count <= 0
         THEN Reject("ul_view_get_message", h, 0) /\ msgbuf' = NoMsg
       ELSE LET v == g_views[h]
                len == v.msg_lens[v.msg_tail]
                cl == IF len < buf_size - 1 THEN len ELSE buf_size - 1
                buf == Prefix(v.msg_queue[v.msg_tail], cl)
            IN  /\ Commit("ul_view_get_message", h,
                          [g_views EXCEPT ![h].msg_tail = (v.msg_tail + 1) % MSG_QUEUE_MAX,
                                          ![h].msg_count = v.msg_count - 1,
                                          ![h].gh_sent = Tail(@)],
                          g_view_count, <<>>, cl)
                /\ msgbuf' = [buf |-> buf, text |-> IF cl <= 0 THEN <<>> ELSE buf,
                              ok |-> cl > 0]
    /\ UNCHANGED <<initRc, g_worker_started, g_renderer, g_cmd_result, destroyed, pushes,
                   chanRest, goObjs, dest, vfsVars, thr>>

\* pollMessage: a 2048-byte buffer
pollMessage(h) == ul_view_get_message(h, PollBufSize)

(* ---------------- the virtual file system ---------------- *)

\* entries the table holds (256 in the source, scaled)
VFS_MAX_FILES == 2
\* bytes of a path buffer (512 in the source, scaled)
VFS_PATH_MAX == 12

\* a path is the sequence of its characters
Marker == <<"f", "i", "l", "e", ":", "/", "/", "/">>
MarkerLen == Len(Marker)
A == <<"a">>
AB == <<"a", "/", "b">>
\* the same path written with a backslash
BackAB == <<"a", "\\", "b">>

\* the spellings of a path: with or without the marker, with or without a
\* leading slash or backslash, with slashes or backslashes inside
Bodies(p) == IF p = AB THEN {AB, BackAB} ELSE {p}
Spellings(p) ==
    {pre \o lead \o body : pre \in {<<>>, Marker}, lead \in {<<>>, <<"/">>, <<"\\">>},
                           body \in Bodies(p)}
BasePaths == {A, AB}
Paths == UNION {Spellings(p) : p \in BasePaths}
\* file contents
Contents == {<<1>>, <<2>>}

\* while (*p == '/') p++
RECURSIVE StripSlashes(_)
StripSlashes(p) == IF p # <<>> /\ Head(p) = "/" THEN StripSlashes(Tail(p)) ELSE p

\* vfs_normalize_path: cut src to dst_size-1 characters, skip a leading
\* marker, turn backslashes into slashes, strip the leading slashes
vfs_normalize_path(src, dst_size) ==
    LET len == IF Len(src) >= dst_size THEN dst_size - 1 ELSE Len(src)
        start == IF len > MarkerLen /\ SubSeq(src, 1, MarkerLen) = Marker
                   THEN MarkerLen ELSE 0
        body == SubSeq(src, start + 1, len)
    IN  StripSlashes([i \in 1 .. Len(body) |-> IF body[i] = "\\" THEN "/" ELSE body[i]])

\* vfs_extract_path: the engine's string, cut to a path buffer, normalised
vfs_extract_path(p) ==
    IF Len(p) = 0 THEN <<>>
    ELSE vfs_normalize_path(SubSeq(p, 1, IF Len(p) >= VFS_PATH_MAX THEN VFS_PATH_MAX - 1
                                         ELSE Len(p)),
                            VFS_PATH_MAX)

\* vfs_find: the first entry with that key, 0 when there is none (entries
\* are numbered from 1 here)
vfs_find(files, normalized) ==
    IF \E i \in 1 .. Len(files) : files[i].path = normalized
      THEN CHOOSE i \in 1 .. Len(files) :
               /\ files[i].path = normalized
               /\ \A j \in 1 .. (i - 1) : files[j].path # normalized
      ELSE 0

\* fopen of the file under the base directory
OnDisk(d, normalized) == \E f \in d : f.path = normalized
DiskFile(d, normalized) == CHOOSE f \in d : f.path = normalized

\* vfs_cb_file_exists
file_exists(files, d, p) ==
    LET norm == vfs_extract_path(p) IN
    IF norm = <<>> THEN FALSE
    ELSE IF vfs_find(files, norm) > 0 THEN TRUE
    ELSE OnDisk(d, norm)

\* what open_file hands the engine: a buffer, or NULL
NullBuffer == [found |-> FALSE, data |-> <<>>]
Buffer(data) == [found |-> TRUE, data |-> data]

\* vfs_cb_open_file
open_file(files, d, p) ==
    LET norm == vfs_extract_path(p)
        idx == vfs_find(files, norm)
    IN  IF norm = <<>> THEN NullBuffer
        ELSE IF idx > 0 THEN Buffer(files[idx].data)
        ELSE IF ~OnDisk(d, norm) THEN NullBuffer
        ELSE IF Len(DiskFile(d, norm).data) <= 0 THEN NullBuffer
        ELSE Buffer(DiskFile(d, norm).data)

\* the record of one VFS call: its path, its return code, the buffer it
\* returned (for a registration that stored data: that data), and whether the
\* key was in the table before the call
FsOut(op, p, rc, buf, hit) == [op |-> op, path |-> p, rc |-> rc, buf |-> buf, hit |-> hit]
NoFsOut == FsOut("none", <<>>, 0, NullBuffer, FALSE)

VfsFrame == UNCHANGED <<chanVars, viewVars, goObjs, dest, msgbuf, thr, disk>>

\* a register that always appends
Register_appends(files, p, data) ==
    LET norm == vfs_normalize_path(p, VFS_PATH_MAX) IN
    IF Len(files) >= VFS_MAX_FILES THEN [files |-> files, rc |-> -3, hit |-> FALSE]
    ELSE [files |-> Append(files, [path |-> norm, data |-> data, size |-> Len(data)]),
          rc |-> 0, hit |-> vfs_find(files, norm) > 0]

\* a register that lets one entry more in than the table holds
Register_overfull(files, p, data) ==
    LET norm == vfs_normalize_path(p, VFS_PATH_MAX)
        idx == vfs_find(files, norm)
    IN  IF idx > 0
          THEN [files |-> [files EXCEPT ![idx].data = data, ![idx].size = Len(data)],
                rc |-> 0, hit |-> TRUE]
        ELSE IF Len(files) > VFS_MAX_FILES THEN [files |-> files, rc |-> -3, hit |-> FALSE]
        ELSE [files |-> Append(files, [path |-> norm, data |-> data, size |-> Len(data)]),
              rc |-> 0, hit |-> FALSE]

\* ul_vfs_register on a table: overwrite the entry of the key, or append
Register(files, p, data) ==
    LET norm == vfs_normalize_path(p, VFS_PATH_MAX)
        idx == vfs_find(files, norm)
    IN  IF idx > 0
          THEN [files |-> [files EXCEPT ![idx].data = data, ![idx].size = Len(data)],
                rc |-> 0, hit |-> TRUE]
        ELSE IF Len(files) >= VFS_MAX_FILES THEN [files |-> files, rc |-> -3, hit |-> FALSE]
        ELSE [files |-> Append(files, [path |-> norm, data |-> data, size |-> Len(data)]),
              rc |-> 0, hit |-> FALSE]

\* the callers pass a path, the data and its size: no null pointer, no
\* negative size; malloc succeeds
ul_vfs_register(p, data) ==
    /\ LET r == Register(g_vfs_files, p, data) IN
       /\ g_vfs_files' = r.files
       /\ fsOut' = FsOut("ul_vfs_register", p, r.rc,
                         IF r.rc = 0 THEN Buffer(data) ELSE NullBuffer, r.hit)
    /\ VfsFrame

\* RegisterFile of vfs.go: nothing for empty data, else the path with
\* slashes and without leading slashes goes to ul_vfs_register
GoNorm(p) == StripSlashes([i \in 1 .. Len(p) |-> IF p[i] = "\\" THEN "/" ELSE p[i]])

RegisterFile(p, data) ==
    /\ IF Len(data) = 0
         THEN /\ UNCHANGED g_vfs_files
              /\ fsOut' = FsOut("RegisterFile", p, 0, NullBuffer, FALSE)
         ELSE LET r == Register(g_vfs_files, GoNorm(p), data) IN
              /\ g_vfs_files' = r.files
              /\ fsOut' = FsOut("RegisterFile", p, r.rc,
                                IF r.rc = 0 THEN Buffer(data) ELSE NullBuffer, r.hit)
    /\ VfsFrame

ul_vfs_clear ==
    /\ g_vfs_files' = <<>>
    /\ fsOut' = FsOut("ul_vfs_clear", <<>>, 0, NullBuffer, FALSE)
    /\ VfsFrame

ul_vfs_count ==
    /\ fsOut' = FsOut("ul_vfs_count", <<>>, Len(g_vfs_files), NullBuffer, FALSE)
    /\ UNCHANGED g_vfs_files
    /\ VfsFrame

\* the engine asks whether a file exists
vfs_cb_file_exists(p) ==
    /\ fsOut' = FsOut("vfs_cb_file_exists", p,
                      IF file_exists(g_vfs_files, disk, p) THEN 1 ELSE 0, NullBuffer,
                      vfs_find(g_vfs_files, vfs_extract_path(p)) > 0)
    /\ UNCHANGED g_vfs_files
    /\ VfsFrame

\* the engine opens a file
vfs_cb_open_file(p) ==
    /\ fsOut' = FsOut("vfs_cb_open_file", p, 0, open_file(g_vfs_files, disk, p),
                      vfs_find(g_vfs_files, vfs_extract_path(p)) > 0)
    /\ UNCHANGED g_vfs_files
    /\ VfsFrame

(* ---------------- teardown ---------------- *)

\* CMD_QUIT: for (i = 0; i < MAX_VIEWS; i++) worker_do_destroy_view(i);
\* ul_destroy ends with ul_vfs_clear(), whether or not the worker was running
\* a CMD_QUIT that leaves slot 0 alone
RECURSIVE QuitViews_skips_first(_, _, _, _)
QuitViews_skips_first(views, count, cs, n) ==
    IF n <= 1 THEN Out(views, count, cs, 0)
    ELSE LET r == QuitViews_skips_first(views, count, cs, n - 1)
             d == worker_do_destroy_view(r.views, r.count, n - 1)
         IN  Out(d.views, d.count, r.calls \o d.calls, 0)

RECURSIVE QuitViews(_, _, _, _)
QuitViews(views, count, cs, n) ==
    IF n = 0 THEN Out(views, count, cs, 0)
    ELSE LET r == QuitViews(views, count, cs, n - 1)
             d == worker_do_destroy_view(r.views, r.count, n - 1)
         IN  Out(d.views, d.count, r.calls \o d.calls, 0)

ul_destroy ==
    /\ IF g_worker_started
         THEN LET r == QuitViews(g_views, g_view_count, <<>>, MAX_VIEWS) IN
              /\ Commit("ul_destroy", -1, r.views, r.count,
                        r.calls \o (IF g_renderer # "NULL"
                                      THEN <<W("ulDestroyRenderer", -1)>> ELSE <<>>), 0)
              /\ g_renderer' = "NULL"
              /\ g_worker_started' = FALSE
              /\ destroyed' = destroyed \cup {i \in Slots : g_views[i].used}
         ELSE /\ Reject("ul_destroy", -1, 0)
              /\ UNCHANGED <<g_renderer, g_worker_started, destroyed>>
    /\ g_vfs_files' = <<>>
    /\ UNCHANGED <<initRc, g_cmd_result, pushes, chanRest, goObjs, dest, msgbuf, thr, disk, fsOut>>

(* ------------------------------------------------------------------ *)
(* Part III: the Go package (ui.go, bridge.go)                         *)
(* ------------------------------------------------------------------ *)

\* UltralightUI objects a program makes
MaxUIs == 2
UIs == 1..MaxUIs

\* an object newUI has not made yet
\* counted: registerView has run for the object and unregisterView has not
NoUI == [viewID |-> -1, closed |-> FALSE, made |-> FALSE, counted |-> FALSE]

\* the input of a frame: the cursor, the buttons held, the wheel, and
\* whether a key went down (with its character) in the frame
NoInput == [mx |-> 0, my |-> 0, left |-> FALSE, right |-> FALSE, scrollY |-> 0,
            keys |-> FALSE]

\* the input fields of an UltralightUI, at their zero values
NoInputState ==
    [BoundsX |-> 0, BoundsY |-> 0, BoundsW |-> 0, BoundsH |-> 0,
     mouseX |-> 0, mouseY |-> 0, mouseInside |-> FALSE,
     leftDown |-> FALSE, rightDown |-> FALSE,
     leftOutside |-> FALSE, rightOutside |-> FALSE,
     domReady |-> FALSE, frameCount |-> 0, goHelperInjected |-> FALSE]

\* frames a run goes through
MaxFrames == 6

\* frames of the runs where both objects take input
InputFrames == 2

\* focusedViewID starts at -1 (init()); prevLeft: the left button was held in
\* the frame before; updated: the objects updated in this frame; frames: the
\* frames begun
NoHost ==
    [focusedViewID |-> -1, GlobalCursorOffsetX |-> 0, GlobalCursorOffsetY |-> 0,
     in |-> NoInput, prevLeft |-> FALSE,
     ui |-> [u \in UIs |-> NoInputState], updated |-> {}, frames |-> 0]

\* no call in flight
NoThr == [kind |-> "none"]

InitHost ==
    /\ uis = [u \in UIs |-> NoUI]
    /\ viewCount = 0
    /\ host = NoHost
    /\ dest = NoDest
    /\ msgbuf = NoMsg
    /\ thr = NoThr
    /\ g_vfs_files = <<>>
    /\ fsOut = NoFsOut

\* nothing under the base directory
InitGo == InitHost /\ disk = {}

\* newUI: ulCreateViewWithHTML, then registerView unless the create failed
newUI(u, width, height, html, engOk) ==
    /\ ~uis[u].made
    /\ LET r == IF ~g_worker_started
                  THEN Out(g_views, g_view_count, <<>>, -1)
                  ELSE worker_do_create_with_content(g_views, g_view_count, width, height,
                                                     html, FALSE, engOk, TRUE)
       IN  /\ Commit("newUI", -1, r.views, r.count, r.calls, r.rc)
           /\ g_cmd_result' = IF g_worker_started THEN r.rc ELSE g_cmd_result
           /\ IF r.rc < 0
                THEN UNCHANGED goVars
                ELSE /\ uis' = [uis EXCEPT ![u] =
                                  [viewID |-> r.rc, closed |-> FALSE, made |-> TRUE,
                                   counted |-> TRUE]]
                     /\ viewCount' = viewCount + 1
                     /\ UNCHANGED <<host, dest, msgbuf, thr, vfsVars>>
    /\ UNCHANGED <<initRc, g_worker_started, g_renderer, destroyed, pushes, chanRest>>

\* the slots a CMD_QUIT or a destroy of h frees
Freed(views, hs) == {i \in hs \cap Slots : views[i].used}

\* Close: if getFocusedViewID() == ui.viewID { setFocusedViewID(-1) }
Unfocus(hst, h) == [hst EXCEPT !.focusedViewID = IF @ = h THEN -1 ELSE @]

\* Close: the closed guard, ulDestroyView(ui.viewID), unregisterView (which
\* calls ulDestroy when the count reaches zero)
Close(u) ==
    /\ uis[u].made
    /\ IF uis[u].closed
         THEN /\ Reject("Close", uis[u].viewID, 0)
              /\ UNCHANGED <<g_worker_started, g_renderer, destroyed, goVars>>
         ELSE LET h == uis[u].viewID
                  d == IF ~g_worker_started \/ ~InRange(h)
                         THEN Out(g_views, g_view_count, <<>>, 0)
                         ELSE worker_do_destroy_view(g_views, g_view_count, h)
                  quit == viewCount - 1 <= 0 /\ g_worker_started
                  q == IF quit THEN QuitViews(d.views, d.count, d.calls, MAX_VIEWS) ELSE d
              IN  /\ Commit("Close", h, q.views, q.count,
                            q.calls \o (IF quit /\ g_renderer # "NULL"
                                          THEN <<W("ulDestroyRenderer", -1)>> ELSE <<>>), 0)
                  /\ uis' = [uis EXCEPT ![u].closed = TRUE, ![u].counted = FALSE]
                  /\ host' = Unfocus(host, h)
                  /\ viewCount' = IF viewCount - 1 <= 0 THEN 0 ELSE viewCount - 1
                  /\ g_vfs_files' = IF viewCount - 1 <= 0 THEN <<>> ELSE g_vfs_files
                  /\ UNCHANGED <<dest, msgbuf, thr, disk, fsOut>>
                  /\ g_worker_started' = IF quit THEN FALSE ELSE g_worker_started
                  /\ g_renderer' = IF quit THEN "NULL" ELSE g_renderer
                  /\ destroyed' = destroyed
                         \cup (IF g_worker_started THEN Freed(g_views, {h}) ELSE {})
                         \cup (IF quit THEN Freed(g_views, Slots) ELSE {})
    /\ UNCHANGED <<initRc, g_cmd_result, pushes, chanRest>>

(* ---------------- input routing (ui.go) ---------------- *)

\* frames an object waits before it looks at IsReady (10 in ui.go)
DomReadyFrames == 0

mouseEventTypeMoved == 0
mouseEventTypeDown == 1
mouseEventTypeUp == 2
mouseButtonNone == 0
mouseButtonLeft == 1
mouseButtonRight == 3
scrollEventTypeByPixel == 0
keyEventRawKeyDown == 0
keyEventChar == 3

\* the bridge's push functions on a table of slots (ul_view_fire_mouse,
\* ul_view_fire_scroll, ul_view_fire_key, ul_view_eval_js); ev.q names the queue
Push(views, h, ev) ==
    LET q == ev.q
        fld == CASE q = "mouse" -> "mouse_queue" [] q = "scroll" -> "scroll_queue"
                 [] q = "key" -> "key_queue" [] OTHER -> "js_queue"
        max == CASE q = "mouse" -> MOUSE_QUEUE_MAX [] q = "scroll" -> SCROLL_QUEUE_MAX
                 [] q = "key" -> KEY_QUEUE_MAX [] OTHER -> JS_QUEUE_MAX
    IN  IF ~InRange(h) \/ ~views[h].used THEN views
        ELSE IF Len(views[h][fld]) >= max \/ (q = "js" /\ ev.e.len >= JS_QUEUE_BUFLEN)
          THEN Pushed(views, h, q, ev.e)
        ELSE Queued(Pushed([views EXCEPT ![h][fld] = Append(@, ev.e)], h, q, ev.e), h, q)

RECURSIVE PushAll(_, _, _)
PushAll(views, h, evs) ==
    IF evs = <<>> THEN views ELSE PushAll(Push(views, h, Head(evs)), h, Tail(evs))

MouseEv(type, x, y, button) ==
    [q |-> "mouse", e |-> [type |-> type, x |-> x, y |-> y, button |-> button]]
ScrollEv(dy) == [q |-> "scroll", e |-> [type |-> scrollEventTypeByPixel, dx |-> 0, dy |-> dy]]
KeyEv(type, vk, text) == [q |-> "key", e |-> [type |-> type, vk |-> vk, mods |-> 0, text |-> text]]

\* isHidden
isHidden(ui) == ui.BoundsW = 0 /\ ui.BoundsH = 0 /\ ui.BoundsX = 0 /\ ui.BoundsY = 0

\* inBounds
inBounds(ui, mx, my) ==
    IF ui.BoundsW <= 0 \/ ui.BoundsH <= 0 THEN TRUE
    ELSE /\ mx >= ui.BoundsX /\ mx < ui.BoundsX + ui.BoundsW
         /\ my >= ui.BoundsY /\ my < ui.BoundsY + ui.BoundsH

\* one mouse button of forwardInput inside the bounds: what becomes of the
\* down and outside flags, and the event fired
ButtonInside(pressed, down, outside, lx, ly, button) ==
    IF pressed
      THEN IF ~down /\ ~outside
             THEN [down |-> TRUE, outside |-> outside,
                   evs |-> <<MouseEv(mouseEventTypeDown, lx, ly, button)>>]
             ELSE [down |-> down, outside |-> outside, evs |-> <<>>]
      ELSE [down |-> FALSE, outside |-> FALSE,
            evs |-> IF down THEN <<MouseEv(mouseEventTypeUp, lx, ly, button)>> ELSE <<>>]

\* the same outside the bounds
ButtonOutside(pressed, down, outside) ==
    IF pressed
      THEN [down |-> down, outside |-> IF ~down THEN TRUE ELSE outside]
      ELSE [down |-> FALSE, outside |-> FALSE]

\* forwardKeyboard: a key that went down goes as RawKeyDown, its character
\* as Char (no Ctrl shortcut, no repeat and no release in the frames here)
forwardKeyboard(inp) ==
    IF inp.keys
      THEN <<KeyEv(keyEventRawKeyDown, 65, <<97>>), KeyEv(keyEventChar, 0, <<97>>)>>
      ELSE <<>>

\* forwardInput of the object ui whose view is vid, in a frame with input
\* inp: the object, the focused view id and the events fired, in order
forwardInput(ui, vid, hst) ==
    LET inp == hst.in
        mx == inp.mx - hst.GlobalCursorOffsetX
        my == inp.my - hst.GlobalCursorOffsetY
        inb == inBounds(ui, mx, my)
        justPressed == inp.left /\ ~hst.prevLeft
        focus == IF inb /\ justPressed THEN vid ELSE hst.focusedViewID
        lx == IF ui.BoundsW <= 0 THEN mx ELSE mx - ui.BoundsX
        ly == IF ui.BoundsW <= 0 THEN my ELSE my - ui.BoundsY
        moved == lx # ui.mouseX \/ ly # ui.mouseY
        l == ButtonInside(inp.left, ui.leftDown, ui.leftOutside, lx, ly, mouseButtonLeft)
        r == ButtonInside(inp.right, ui.rightDown, ui.rightOutside, lx, ly, mouseButtonRight)
        lo == ButtonOutside(inp.left, ui.leftDown, ui.leftOutside)
        ro == ButtonOutside(inp.right, ui.rightDown, ui.rightOutside)
        keys == IF focus = vid THEN forwardKeyboard(inp) ELSE <<>>
    IN  IF inb
          THEN [ui |-> [ui EXCEPT !.mouseInside = TRUE,
                                  !.mouseX = lx, !.mouseY = ly,
                                  !.leftDown = l.down, !.leftOutside = l.outside,
                                  !.rightDown = r.down, !.rightOutside = r.outside],
                focus |-> focus,
                evs |-> (IF moved
                           THEN <<MouseEv(mouseEventTypeMoved, lx, ly,
                                          IF ui.leftDown THEN mouseButtonLeft
                                          ELSE mouseButtonNone)>>
                           ELSE <<>>)
                        \o l.evs \o r.evs
                        \o (IF inp.scrollY # 0 THEN <<ScrollEv(inp.scrollY * 100)>> ELSE <<>>)
                        \o keys]
          ELSE [ui |-> [ui EXCEPT !.mouseInside = FALSE,
                                  !.mouseX = IF ui.mouseInside THEN -1 ELSE @,
                                  !.mouseY = IF ui.mouseInside THEN -1 ELSE @,
                                  !.leftDown = lo.down, !.leftOutside = lo.outside,
                                  !.rightDown = ro.down, !.rightOutside = ro.outside],
                focus |-> focus,
                evs |-> (IF ui.mouseInside
                           THEN <<MouseEv(mouseEventTypeMoved, -1, -1, mouseButtonNone)>>
                           ELSE <<>>)
                        \o keys]

\* the script of injectGoHelper
GoHelper == [name |-> 1, len |-> 1]

\* the poll loop of updateInternal on the slot v: pollMessage until it
\* reports nothing, which is an empty ring or a message of which no byte
\* was copied (that message is taken from the ring all the same)
RECURSIVE PollLoop(_)
PollLoop(v) ==
    IF v.msg_count <= 0 THEN v
    ELSE LET len == v.msg_lens[v.msg_tail]
             cl == IF len < PollBufSize - 1 THEN len ELSE PollBufSize - 1
             v1 == [v EXCEPT !.msg_tail = (v.msg_tail + 1) % MSG_QUEUE_MAX,
                             !.msg_count = v.msg_count - 1,
                             !.gh_sent = Tail(@)]
         IN  IF cl > 0 THEN PollLoop(v1) ELSE v1

\* ulViewCopyPixelsRGBA as updateInternal calls it, into ui.pixels, which
\* newUI made width * height * 4 bytes long (the lock succeeds): the slots,
\* the engine calls and the result; the texture is written when rc is not 0
CopyToTexture(views, vid) ==
    IF ~InRange(vid) \/ ~views[vid].used \/ views[vid].surface = "NULL"
      THEN [views |-> views, calls |-> <<>>, rc |-> 0]
    ELSE IF ~views[vid].dirty
      THEN [views |-> views, calls |-> <<C("ulSurfaceGetDirtyBounds", vid)>>, rc |-> 0]
    ELSE [views |-> CopyDone(views, vid),
          calls |-> <<C("ulSurfaceGetDirtyBounds", vid), C("ulSurfaceLockPixels", vid),
                      C("ulSurfaceGetRowBytes", vid), C("ulSurfaceUnlockPixels", vid),
                      C("ulSurfaceClearDirtyBounds", vid)>>,
          rc |-> 1]

\* updateInternal of the object ui whose view is vid, over the slots views:
\* the frame count, the message poll, domReady, the helper script, the
\* hidden test, forwardInput, the pixel copy.  evs: the events pushed;
\* views: the slots afterwards; calls, rc: of the pixel copy
updateInternal(ui, vid, hst, views) ==
    LET fc == IF ui.frameCount > DomReadyFrames THEN ui.frameCount ELSE ui.frameCount + 1
        polled == IF InRange(vid) /\ views[vid].used
                    THEN [views EXCEPT ![vid] = PollLoop(@)] ELSE views
        ready == ui.domReady \/ (fc > DomReadyFrames /\ is_ready(views, vid) = 1)
        inject == ready /\ ~ui.goHelperInjected
        ui1 == [ui EXCEPT !.frameCount = fc, !.domReady = ready,
                          !.goHelperInjected = @ \/ inject]
        pre == IF inject THEN <<[q |-> "js", e |-> GoHelper]>> ELSE <<>>
        f == forwardInput(ui1, vid, hst)
        input == ~isHidden(ui1) /\ ready
        evs == IF input THEN pre \o f.evs ELSE pre
        pushed == PushAll(polled, vid, evs)
        copy == IF isHidden(ui1) THEN [views |-> pushed, calls |-> <<>>, rc |-> 0]
                ELSE CopyToTexture(pushed, vid)
    IN  [ui |-> IF input THEN f.ui ELSE ui1,
         focus |-> IF input THEN f.focus ELSE hst.focusedViewID,
         evs |-> evs, views |-> copy.views, calls |-> copy.calls, rc |-> copy.rc]

HostFrame ==
    UNCHANGED <<chanVars, viewVars, uis, viewCount, dest, msgbuf, thr, vfsVars>>

\* SetBounds
SetBounds(u, x, y, w, h) ==
    /\ uis[u].made
    /\ host' = [host EXCEPT !.ui[u].BoundsX = x, !.ui[u].BoundsY = y,
                            !.ui[u].BoundsW = w, !.ui[u].BoundsH = h]
    /\ HostFrame

\* SetFocus
SetFocus(u) ==
    /\ uis[u].made
    /\ host' = [host EXCEPT !.focusedViewID = uis[u].viewID]
    /\ HostFrame

\* ClearFocus
ClearFocus ==
    /\ host' = [host EXCEPT !.focusedViewID = -1]
    /\ HostFrame

\* Tick at the head of a frame: ulTick, and the frame's input is inp;
\* dirtySet: the views the render paints
Tick(inp, dirtySet) ==
    /\ host.frames < MaxFrames
    /\ IF ~g_worker_started
         THEN Reject("Tick", -1, 0)
         ELSE LET r == worker_do_tick(g_views, g_view_count, Slots, dirtySet) IN
              Commit("Tick", -1, r.views, r.count, r.calls, 0)
    /\ pushes' = 0
    /\ host' = [host EXCEPT !.in = inp, !.prevLeft = host.in.left, !.updated = {},
                            !.frames = @ + 1]
    /\ UNCHANGED <<initRc, g_worker_started, g_renderer, g_cmd_result, destroyed, chanRest,
                   uis, viewCount, dest, msgbuf, thr, vfsVars>>

\* UpdateNoTick, once per object and frame; rc: whether the texture was
\* written
UpdateNoTick(u) ==
    /\ uis[u].made /\ u \notin host.updated
    /\ IF uis[u].closed
         THEN /\ Reject("UpdateNoTick", uis[u].viewID, 0)
              /\ host' = [host EXCEPT !.updated = @ \cup {u}]
         ELSE LET vid == uis[u].viewID
                  r == updateInternal(host.ui[u], vid, host, g_views)
              IN  /\ Commit("UpdateNoTick", vid, r.views, g_view_count, r.calls, r.rc)
                  /\ host' = [host EXCEPT !.ui[u] = r.ui, !.focusedViewID = r.focus,
                                          !.updated = @ \cup {u}]
    /\ UNCHANGED <<initRc, g_worker_started, g_renderer, g_cmd_result, destroyed, pushes,
                   chanRest, uis, viewCount, dest, msgbuf, thr, vfsVars>>

\* Update: ulTick and updateInternal in one call, a frame of a game with
\* one view; the input stays as it was
Update(u, dirtySet) ==
    /\ uis[u].made /\ host.frames < MaxFrames
    /\ IF uis[u].closed
         THEN /\ Reject("Update", uis[u].viewID, 0)
              /\ UNCHANGED pushes
              /\ host' = [host EXCEPT !.frames = @ + 1]
         ELSE LET vid == uis[u].viewID
                  t == IF g_worker_started
                         THEN worker_do_tick(g_views, g_view_count, Slots, dirtySet)
                         ELSE Out(g_views, g_view_count, <<>>, 0)
                  r == updateInternal(host.ui[u], vid, host, t.views)
              IN  /\ Commit("Update", vid, r.views, t.count, t.calls \o r.calls, r.rc)
                  /\ pushes' = 0
                  /\ host' = [host EXCEPT !.ui[u] = r.ui, !.focusedViewID = r.focus,
                                          !.frames = @ + 1]
    /\ UNCHANGED <<initRc, g_worker_started, g_renderer, g_cmd_result, destroyed,
                   chanRest, uis, viewCount, dest, msgbuf, thr, vfsVars>>

\* newUI and Close step by step, as threads that run them side by side
\* see them: each bridge call is one command of the worker, and the
\* counter changes under viewCountMu

\* newUI up to the return of ulCreateViewWithHTML
newUI_create(u, width, height, html, engOk) ==
    /\ ~uis[u].made /\ uis[u].viewID < 0
    /\ LET r == IF ~g_worker_started
                  THEN Out(g_views, g_view_count, <<>>, -1)
                  ELSE worker_do_create_with_content(g_views, g_view_count, width, height,
                                                     html, FALSE, engOk, TRUE)
       IN  /\ Commit("ulCreateViewWithHTML", -1, r.views, r.count, r.calls, r.rc)
           /\ g_cmd_result' = IF g_worker_started THEN r.rc ELSE g_cmd_result
           /\ uis' = [uis EXCEPT ![u].viewID = r.rc]
    /\ UNCHANGED <<initRc, g_worker_started, g_renderer, destroyed, pushes, chanRest,
                   viewCount, host, dest, msgbuf, thr, vfsVars>>

\* registerView, and the object is returned
newUI_register(u) ==
    /\ ~uis[u].made /\ uis[u].viewID >= 0
    /\ uis' = [uis EXCEPT ![u].made = TRUE, ![u].counted = TRUE]
    /\ viewCount' = viewCount + 1
    /\ lastOp' = [op |-> "registerView", h |-> uis[u].viewID, rc |-> 0]
    /\ UNCHANGED <<chanVars, initRc, g_worker_started, g_renderer, g_views, g_view_count,
                   calls, destroyed, pushes, host, dest, msgbuf, thr, vfsVars>>

\* Close up to the return of ulDestroyView
Close_destroy(u) ==
    /\ uis[u].made /\ ~uis[u].closed
    /\ LET h == uis[u].viewID
           d == IF ~g_worker_started \/ ~InRange(h)
                  THEN Out(g_views, g_view_count, <<>>, 0)
                  ELSE worker_do_destroy_view(g_views, g_view_count, h)
       IN  /\ Commit("ulDestroyView", h, d.views, d.count, d.calls, 0)
           /\ destroyed' = destroyed \cup (IF g_worker_started THEN Freed(g_views, {h}) ELSE {})
    /\ uis' = [uis EXCEPT ![u].closed = TRUE]
    /\ host' = Unfocus(host, uis[u].viewID)
    /\ UNCHANGED <<initRc, g_cmd_result, g_worker_started, g_renderer, pushes, chanRest,
                   viewCount, dest, msgbuf, thr, vfsVars>>

\* unregisterView: the count goes down, and ulDestroy runs when it is at zero
Close_unregister(u) ==
    /\ uis[u].closed /\ uis[u].counted
    /\ LET zero == viewCount - 1 <= 0
           quit == zero /\ g_worker_started
           q == IF quit THEN QuitViews(g_views, g_view_count, <<>>, MAX_VIEWS)
                ELSE Out(g_views, g_view_count, <<>>, 0)
       IN  /\ Commit("unregisterView", uis[u].viewID, q.views, q.count,
                     q.calls \o (IF quit /\ g_renderer # "NULL"
                                   THEN <<W("ulDestroyRenderer", -1)>> ELSE <<>>), 0)
           /\ viewCount' = IF zero THEN 0 ELSE viewCount - 1
           /\ g_vfs_files' = IF zero THEN <<>> ELSE g_vfs_files
           /\ g_worker_started' = IF quit THEN FALSE ELSE g_worker_started
           /\ g_renderer' = IF quit THEN "NULL" ELSE g_renderer
           /\ destroyed' = destroyed \cup (IF quit THEN Freed(g_views, Slots) ELSE {})
    /\ uis' = [uis EXCEPT ![u].counted = FALSE]
    /\ UNCHANGED <<initRc, g_cmd_result, pushes, chanRest, host, dest, msgbuf, thr, disk, fsOut>>

(* ---------------- calls that run beside the worker ---------------- *)

\* The queue pushes, ul_view_get_message and the VFS calls take no lock and
\* do not go through send_cmd: a thread that calls them while another
\* thread's command runs on the worker shares the slot and the table with
\* the worker.  Their loads and stores are the steps below.

ThrFrame == UNCHANGED <<chanVars, viewVars, goObjs, dest, msgbuf, vfsVars>>

\* pushes and Ticks of a run
MaxRacePushes == 3
MaxRaceTicks == 2

\* the events pushed: the k-th has x = k
RaceEvent(k) == [type |-> 1 + (k % 2), x |-> k, y |-> 0, button |-> 1]
NoEvent == [type |-> 0, x |-> 0, y |-> 0, button |-> 0]

\* one used slot's mouse queue as the array and the count it is; cpc, cidx,
\* cev: the caller inside ul_view_fire_mouse; wpc, wi: the worker inside the
\* drain loop of worker_do_tick; accepted, dispatched: what passed the
\* capacity test and what went to the engine
InitQueueRace ==
    thr = [kind |-> "queue",
           mouse_queue |-> [i \in 0 .. MOUSE_QUEUE_MAX - 1 |-> NoEvent], mouse_count |-> 0,
           cpc |-> "idle", cidx |-> 0, cev |-> NoEvent, pushed |-> 0,
           wpc |-> "idle", wi |-> 0, ticks |-> 0,
           accepted |-> <<>>, dispatched |-> <<>>]

\* if (v->mouse_count >= MOUSE_QUEUE_MAX) return;
fire_mouse_check ==
    /\ thr.cpc = "idle" /\ thr.pushed < MaxRacePushes
    /\ thr' = IF thr.mouse_count >= MOUSE_QUEUE_MAX
                THEN [thr EXCEPT !.pushed = @ + 1]
                ELSE [thr EXCEPT !.pushed = @ + 1, !.cpc = "load",
                                 !.cev = RaceEvent(thr.pushed + 1),
                                 !.accepted = Append(@, RaceEvent(thr.pushed + 1))]
    /\ ThrFrame

\* v->mouse_count++: the load
fire_mouse_load ==
    /\ thr.cpc = "load"
    /\ thr' = [thr EXCEPT !.cidx = thr.mouse_count, !.cpc = "store"]
    /\ ThrFrame

\* v->mouse_count++: the store
fire_mouse_store ==
    /\ thr.cpc = "store"
    /\ thr' = [thr EXCEPT !.mouse_count = thr.cidx + 1, !.cpc = "type"]
    /\ ThrFrame

\* e->type = type;
fire_mouse_type ==
    /\ thr.cpc = "type"
    /\ thr' = [thr EXCEPT !.mouse_queue[thr.cidx].type = thr.cev.type, !.cpc = "rest"]
    /\ ThrFrame

\* e->x = x; e->y = y; e->button = button;
fire_mouse_rest ==
    /\ thr.cpc = "rest"
    /\ thr' = [thr EXCEPT !.mouse_queue[thr.cidx] = thr.cev, !.cpc = "idle"]
    /\ ThrFrame

\* worker_do_tick reaches the slot's mouse loop
drain_begin ==
    /\ thr.wpc = "idle" /\ thr.ticks < MaxRaceTicks
    /\ thr' = [thr EXCEPT !.wpc = "drain", !.wi = 0, !.ticks = @ + 1]
    /\ ThrFrame

\* for (i = 0; i < v->mouse_count; i++) dispatch mouse_queue[i]
drain_step ==
    /\ thr.wpc = "drain"
    /\ thr' = IF thr.wi < thr.mouse_count
                THEN [thr EXCEPT !.dispatched = Append(@, thr.mouse_queue[thr.wi]),
                                 !.wi = @ + 1]
                ELSE [thr EXCEPT !.wpc = "reset"]
    /\ ThrFrame

\* v->mouse_count = 0;
drain_reset ==
    /\ thr.wpc = "reset"
    /\ thr' = [thr EXCEPT !.mouse_count = 0, !.wpc = "idle"]
    /\ ThrFrame

\* sends and polls of a run
MaxRaceSends == 3
MaxRacePolls == 3

\* one used slot's message ring as its arrays and counters; wpc, wc: the
\* worker inside jsc_goSend_callback (a page script runs during a Tick);
\* cpc, cc: the caller inside ul_view_get_message; the k-th message sent is
\* <<k>>; sent, got: the messages stored and the messages copied out;
\* pops: the polls that took a message
InitRingRace ==
    thr = [kind |-> "ring",
           msg_queue |-> [i \in 0 .. MSG_QUEUE_MAX - 1 |-> <<>>],
           msg_head |-> 0, msg_tail |-> 0, msg_count |-> 0,
           wpc |-> "idle", wc |-> 0, sends |-> 0,
           cpc |-> "idle", cc |-> 0, polls |-> 0,
           sent |-> <<>>, got |-> <<>>, pops |-> 0]

\* if (v->msg_count < MSG_QUEUE_MAX && maxLen < MSG_QUEUE_BUFLEN)
goSend_check ==
    /\ thr.wpc = "idle" /\ thr.sends < MaxRaceSends
    /\ thr' = IF thr.msg_count < MSG_QUEUE_MAX
                THEN [thr EXCEPT !.sends = @ + 1, !.wpc = "write"]
                ELSE [thr EXCEPT !.sends = @ + 1]
    /\ ThrFrame

\* JSStringGetUTF8CString(jsStr, v->msg_queue[v->msg_head], ...); msg_lens
goSend_write ==
    /\ thr.wpc = "write"
    /\ thr' = [thr EXCEPT !.msg_queue[thr.msg_head] = <<thr.sends>>,
                          !.sent = Append(@, <<thr.sends>>), !.wpc = "head"]
    /\ ThrFrame

\* v->msg_head = (v->msg_head + 1) % MSG_QUEUE_MAX;
goSend_head ==
    /\ thr.wpc = "head"
    /\ thr' = [thr EXCEPT !.msg_head = (@ + 1) % MSG_QUEUE_MAX, !.wpc = "load"]
    /\ ThrFrame

\* v->msg_count++: the load
goSend_load ==
    /\ thr.wpc = "load"
    /\ thr' = [thr EXCEPT !.wc = thr.msg_count, !.wpc = "store"]
    /\ ThrFrame

\* v->msg_count++: the store
goSend_store ==
    /\ thr.wpc = "store"
    /\ thr' = [thr EXCEPT !.msg_count = thr.wc + 1, !.wpc = "idle"]
    /\ ThrFrame

\* if (v->msg_count <= 0) return 0;
get_message_check ==
    /\ thr.cpc = "idle" /\ thr.polls < MaxRacePolls
    /\ thr' = IF thr.msg_count <= 0
                THEN [thr EXCEPT !.polls = @ + 1]
                ELSE [thr EXCEPT !.polls = @ + 1, !.cpc = "copy"]
    /\ ThrFrame

\* memcpy(buf, v->msg_queue[v->msg_tail], cl);
get_message_copy ==
    /\ thr.cpc = "copy"
    /\ thr' = [thr EXCEPT !.got = Append(@, thr.msg_queue[thr.msg_tail]), !.cpc = "tail"]
    /\ ThrFrame

\* v->msg_tail = (v->msg_tail + 1) % MSG_QUEUE_MAX;
get_message_tail ==
    /\ thr.cpc = "tail"
    /\ thr' = [thr EXCEPT !.msg_tail = (@ + 1) % MSG_QUEUE_MAX, !.cpc = "load"]
    /\ ThrFrame

\* v->msg_count--: the load
get_message_load ==
    /\ thr.cpc = "load"
    /\ thr' = [thr EXCEPT !.cc = thr.msg_count, !.cpc = "store"]
    /\ ThrFrame

\* v->msg_count--: the store
get_message_store ==
    /\ thr.cpc = "store"
    /\ thr' = [thr EXCEPT !.msg_count = thr.cc - 1, !.pops = @ + 1, !.cpc = "idle"]
    /\ ThrFrame

\* registers, clears and opens of a run
MaxRaceRegs == 2
MaxRaceClears == 1
MaxRaceOpens == 3

\* int idx = vfs_find(norm); on a miss the new entry's malloc, memcpy and
\* g_vfs_count++
vfs_register_find ==
    /\ thr.kind = "vfs" /\ thr.rpc = "idle" /\ thr.regs < MaxRaceRegs
    /\ thr' = IF thr.g_vfs_count > 0
                THEN [thr EXCEPT !.regs = @ + 1, !.rpc = "free"]
                ELSE [thr EXCEPT !.regs = @ + 1, !.data = thr.next,
                                 !.live = @ \cup {thr.next}, !.next = @ + 1,
                                 !.g_vfs_count = 1]
    /\ ThrFrame

\* free(g_vfs_files[idx].data);
vfs_register_free ==
    /\ thr.kind = "vfs" /\ thr.rpc = "free"
    /\ thr' = [thr EXCEPT !.live = @ \ {thr.data}, !.rpc = "malloc"]
    /\ ThrFrame

\* g_vfs_files[idx].data = (char*)malloc((size_t)size); memcpy; size
vfs_register_malloc ==
    /\ thr.kind = "vfs" /\ thr.rpc = "malloc"
    /\ thr' = [thr EXCEPT !.data = thr.next, !.live = @ \cup {thr.next},
                          !.next = @ + 1, !.rpc = "idle"]
    /\ ThrFrame

\* ul_vfs_clear: free(g_vfs_files[i].data); data = NULL; g_vfs_count = 0
vfs_clear_all ==
    /\ thr.kind = "vfs" /\ thr.rpc = "idle" /\ thr.clears < MaxRaceClears
    /\ thr' = [thr EXCEPT !.clears = @ + 1, !.live = @ \ {thr.data},
                          !.data = 0, !.g_vfs_count = 0]
    /\ ThrFrame

\* int idx = vfs_find(norm); a miss goes to the disk
vfs_open_find ==
    /\ thr.kind = "vfs" /\ thr.opc = "idle" /\ thr.opens < MaxRaceOpens
    /\ thr' = IF thr.g_vfs_count > 0
                THEN [thr EXCEPT !.opens = @ + 1, !.opc = "wrap"]
                ELSE [thr EXCEPT !.opens = @ + 1]
    /\ ThrFrame

\* return pfn_CreateBuffer(e->data, e->size, NULL, NULL);
vfs_open_wrap ==
    /\ thr.kind = "vfs" /\ thr.opc = "wrap"
    /\ thr' = [thr EXCEPT !.held = @ \cup {thr.data}, !.opc = "idle"]
    /\ ThrFrame

\* the engine destroys a buffer it holds: no destroy callback was given, the
\* data stays with the table
engine_release ==
    /\ thr.kind = "vfs"
    /\ \E b \in thr.held : thr' = [thr EXCEPT !.held = @ \ {b}]
    /\ ThrFrame

(* ------------------------------------------------------------------ *)
(* Specifications                                                      *)
(* ------------------------------------------------------------------ *)

\* Part II before ul_init
InitViews ==
    /\ initRc = NotCalled
    /\ g_worker_started = FALSE
    /\ g_renderer = "NULL"
    /\ g_views = [i \in Slots |-> ZeroSlot]
    /\ g_view_count = 0
    /\ calls = <<>>
    /\ lastOp = [op |-> "none", h |-> -1, rc |-> 0]
    /\ destroyed = {}
    /\ pushes = 0

\* Part II after a successful ul_init
InitViewsStarted ==
    /\ initRc = 0
    /\ g_worker_started = TRUE
    /\ g_renderer = "renderer"
    /\ g_views = [i \in Slots |-> ZeroSlot]
    /\ g_view_count = 0
    /\ calls = <<>>
    /\ lastOp = [op |-> "ul_init", h |-> -1, rc |-> 0]
    /\ destroyed = {}
    /\ pushes = 0

\* the channel with one calling thread
InitOne == InitChan /\ callers = {1} /\ InitViewsStarted /\ InitGo
SpecOne == InitOne /\ [][NextChan]_vars

\* the channel with every thread calling
InitMany == InitChan /\ callers = Threads /\ InitViewsStarted /\ InitGo
SpecMany == InitMany /\ [][NextChan]_vars

\* the same with a fair scheduler: the worker thread and every calling
\* thread that can take a step inside send_cmd eventually takes it; a thread
\* blocked on the mutex or on a condition gets it if it is free or signalled
\* again and again.  Starting a new call is left to the caller.
FairChan ==
    /\ SF_vars(worker_take) /\ WF_vars(worker_exec) /\ SF_vars(worker_done)
    /\ SF_vars(worker_take_w32) /\ WF_vars(worker_done_w32)
    /\ \A t \in Threads :
          /\ WF_vars(send_cmd_wait(t)) /\ SF_vars(send_cmd_wake(t))
          /\ WF_vars(send_cmd_return(t))
          /\ WF_vars(send_cmd_set_w32(t)) /\ SF_vars(send_cmd_return_w32(t))
          /\ WF_vars(ul_create_view_return(t))

SpecManyFair == InitMany /\ [][NextChan]_vars /\ FairChan

\* starting the bridge: ul_init with each way it can fail, then commands
InitBoot == InitChan /\ platform = "posix" /\ callers = {1} /\ InitViews /\ InitGo

NextBoot ==
    \/ \E o \in {"libs", "resolve", "thread", "renderer", "ok"} : ul_init(o)
    \/ \E sz \in ViewSizes, engOk \in BOOLEAN : ul_create_view(sz[1], sz[2], engOk, TRUE)
    \/ \E sz \in ViewSizes, url \in Urls, engOk \in BOOLEAN :
          ul_create_view_with_url(sz[1], sz[2], url, engOk, TRUE)
    \/ \E h \in Handles : ul_destroy_view(h)
    \/ \E h \in Handles, url \in Urls : ul_view_load_url(h, url, TRUE)
    \/ ul_tick(Slots, {})
    \/ ul_destroy

SpecBoot == InitBoot /\ [][NextBoot]_vars

\* the view lifecycle after a successful ul_init
InitLife == InitChan /\ platform = "posix" /\ callers = {1} /\ InitViewsStarted /\ InitGo

NextLife ==
    \/ \E sz \in ViewSizes, engOk \in BOOLEAN : ul_create_view(sz[1], sz[2], engOk, TRUE)
    \/ \E sz \in ViewSizes, url \in Urls, engOk \in BOOLEAN :
          ul_create_view_async(sz[1], sz[2], url, engOk)
    \/ \E sz \in ViewSizes, html \in Htmls, engOk \in BOOLEAN :
          ul_create_view_with_html(sz[1], sz[2], html, engOk, TRUE)
    \/ \E h \in Handles : ul_destroy_view(h)
    \/ \E h \in Handles, html \in Htmls : ul_view_load_html(h, html, TRUE)
    \/ ul_tick(Slots, {})
    \/ \E h \in Handles : ul_view_is_ready(h)

Spec == InitLife /\ [][NextLife]_vars

\* the bindings: creates, loads and Ticks with the view's script context
\* there or not
InitBind == InitLife

NextBind ==
    \/ \E sz \in ViewSizes : ul_create_view_async(sz[1], sz[2], "u", TRUE)
    \/ \E sz \in ViewSizes, ctxOk \in BOOLEAN :
          ul_create_view_with_html(sz[1], sz[2], "h", TRUE, ctxOk)
    \/ \E h \in Slots : ul_destroy_view(h)
    \/ \E ctxOk \in BOOLEAN : ul_view_load_html(0, "h", ctxOk)
    \/ ul_view_eval_js(0, [name |-> 1, len |-> 1])
    \/ \E ctxSet \in {{}, Slots} : ul_tick(ctxSet, {})

SpecBind == InitBind /\ [][NextBind]_vars

\* the view lifecycle up to and after ul_destroy
InitQuit == InitLife

NextQuit ==
    \/ \E sz \in ViewSizes, engOk \in BOOLEAN : ul_create_view(sz[1], sz[2], engOk, TRUE)
    \/ \E sz \in ViewSizes : ul_create_view_with_html(sz[1], sz[2], "h", TRUE, TRUE)
    \/ \E h \in Handles : ul_destroy_view(h)
    \/ \E h \in Handles : ul_view_load_html(h, "h", TRUE)
    \/ ul_tick(Slots, {})
    \/ \E h \in Handles : ul_view_is_ready(h)
    \/ \E h \in Handles : ul_view_get_width(h)
    \/ \E h \in Handles : ul_view_eval_js(h, [name |-> 1, len |-> 1])
    \/ ul_destroy

SpecQuit == InitQuit /\ [][NextQuit]_vars

\* reading a view back: sizes and pixels of views created after a successful
\* ul_init
InitPixels == InitChan /\ platform = "posix" /\ callers = {1} /\ InitViewsStarted /\ InitGo

NextPixels ==
    \/ \E sz \in ViewSizes, engOk \in BOOLEAN, ctxOk \in BOOLEAN :
          ul_create_view(sz[1], sz[2], engOk, ctxOk)
    \/ \E h \in Handles : ul_destroy_view(h)
    \/ \E ctxSet \in SUBSET Slots, dirtySet \in SUBSET Slots : ul_tick(ctxSet, dirtySet)
    \/ \E h \in Handles : ul_view_get_width(h)
    \/ \E h \in Handles : ul_view_get_height(h)
    \/ \E h \in Handles : ul_view_get_row_bytes(h)
    \/ \E h \in Handles : ul_view_get_pixels(h)
    \/ \E h \in Handles : ul_view_unlock_pixels(h)

SpecPixels == InitPixels /\ [][NextPixels]_vars

\* the pixel copy: views of several sizes, Ticks that paint some of them, and
\* copies into buffers of several sizes
InitCopy == InitChan /\ platform = "posix" /\ callers = {1} /\ InitViewsStarted /\ InitGo

NextCopy ==
    \/ \E sz \in PixelSizes : ul_create_view(sz[1], sz[2], TRUE, TRUE)
    \/ \E h \in Slots : ul_destroy_view(h)
    \/ \E dirtySet \in SUBSET Slots : ul_tick(Slots, dirtySet)
    \/ \E h \in Handles : ul_view_get_pixels(h)
    \/ \E h \in Handles, d \in DestSizes, lockOk \in BOOLEAN :
          ul_view_copy_pixels_rgba(h, d, lockOk)

SpecCopy == InitCopy /\ [][NextCopy]_vars

\* messages from page script: sends by the page of the first slot's view,
\* polls by the host, Ticks in between
InitMsg == InitChan /\ platform = "posix" /\ callers = {1} /\ InitViewsStarted /\ InitGo

NextMsg ==
    \/ \E sz \in ViewSizes : ul_create_view(sz[1], sz[2], TRUE, TRUE)
    \/ \E h \in Slots : ul_destroy_view(h)
    \/ ul_tick(Slots, {})
    \/ \E vid \in PushHandles \cap Slots, msg \in Messages : jsc_goSend_callback(vid, msg)
    \/ \E h \in PushHandles : pollMessage(h)

SpecMsg == InitMsg /\ [][NextMsg]_vars

\* the virtual file system: registrations, clears and the engine's lookups,
\* over a base directory that holds some of the files, one of them empty
DiskFiles == {[path |-> A, data |-> <<3>>], [path |-> AB, data |-> <<>>]}

InitVfs ==
    /\ InitChan /\ platform = "posix" /\ callers = {1} /\ InitViewsStarted /\ InitHost
    /\ disk \in SUBSET DiskFiles

NextVfs ==
    \/ \E p \in Paths, data \in Contents : ul_vfs_register(p, data)
    \/ \E p \in Paths, data \in Contents \cup {<<>>} : RegisterFile(p, data)
    \/ ul_vfs_clear
    \/ ul_vfs_count
    \/ \E p \in Paths : vfs_cb_file_exists(p)
    \/ \E p \in Paths : vfs_cb_open_file(p)

SpecVfs == InitVfs /\ [][NextVfs]_vars

\* registered files beside the life of the views: registrations and clears,
\* views made and closed through the Go objects and through the bridge, Ticks
\* and the teardown
InitVfsViews == InitChan /\ platform = "posix" /\ callers = {1} /\ InitViewsStarted /\ InitGo

NextVfsViews ==
    \/ \E data \in Contents : ul_vfs_register(A, data)
    \/ ul_vfs_clear
    \/ \E u \in UIs, sz \in ViewSizes : newUI(u, sz[1], sz[2], "h", TRUE)
    \/ \E u \in UIs : Close(u)
    \/ \E sz \in ViewSizes : ul_create_view(sz[1], sz[2], TRUE, TRUE)
    \/ \E h \in Slots : ul_destroy_view(h)
    \/ ul_tick(Slots, {})
    \/ ul_destroy

SpecVfsViews == InitVfsViews /\ [][NextVfsViews]_vars

\* the input queues: pushes and Ticks on views created after a successful ul_init
InitQueue == InitChan /\ platform = "posix" /\ callers = {1} /\ InitViewsStarted /\ InitGo

NextQueue ==
    \/ \E sz \in ViewSizes : ul_create_view(sz[1], sz[2], TRUE, TRUE)
    \/ \E h \in Handles : ul_destroy_view(h)
    \/ \E h \in PushHandles, e \in MouseEvents : ul_view_fire_mouse(h, e)
    \/ \E h \in PushHandles, e \in ScrollEvents : ul_view_fire_scroll(h, e)
    \/ \E h \in PushHandles, e \in KeyEvents : ul_view_fire_key(h, e)
    \/ \E h \in PushHandles, js \in Scripts : ul_view_eval_js(h, js)
    \/ ul_tick(Slots, {})

SpecQueue == InitQueue /\ [][NextQueue]_vars

\* the clamp: views of the sizes a create is given (ul_create_view checks
\* neither width nor height), mouse events inside, left of, above and beyond
\* the view, and Ticks
ClampSizes == {<<2, 1>>, <<1, 2>>, <<0, 1>>, <<2, 0>>}
ClampEvents == {[type |-> 0, x |-> -1, y |-> 5, button |-> 0],
                [type |-> 1, x |-> 5, y |-> -1, button |-> 1],
                [type |-> 2, x |-> 1, y |-> 0, button |-> 1]}

InitClamp == InitQueue

NextClamp ==
    \/ \E sz \in ClampSizes, engOk \in BOOLEAN : ul_create_view(sz[1], sz[2], engOk, TRUE)
    \/ ul_destroy_view(0)
    \/ \E e \in ClampEvents : ul_view_fire_mouse(0, e)
    \/ ul_tick(Slots, {})

SpecClamp == InitClamp /\ [][NextClamp]_vars

\* the Go objects: newUI and Close, beside raw destroy calls and Ticks
InitUI == InitChan /\ platform = "posix" /\ callers = {1} /\ InitViewsStarted /\ InitGo

NextUI ==
    \/ \E u \in UIs, sz \in ViewSizes, html \in {"", "h"}, engOk \in BOOLEAN :
          newUI(u, sz[1], sz[2], html, engOk)
    \/ \E u \in UIs : Close(u)
    \/ \E sz \in ViewSizes : ul_create_view(sz[1], sz[2], TRUE, TRUE)
    \/ \E h \in Handles : ul_destroy_view(h)
    \/ ul_tick(Slots, {})

SpecUI == InitUI /\ [][NextUI]_vars

\* the Go objects made and closed by threads that run side by side
InitGoThreads == InitUI

NextGoThreads ==
    \/ \E u \in UIs, sz \in ViewSizes, html \in {"", "h"}, engOk \in BOOLEAN :
          newUI_create(u, sz[1], sz[2], html, engOk)
    \/ \E u \in UIs : newUI_register(u)
    \/ \E u \in UIs : Close_destroy(u)
    \/ \E u \in UIs : Close_unregister(u)
    \/ ul_tick(Slots, {})

SpecGoThreads == InitGoThreads /\ [][NextGoThreads]_vars

\* frames of a game with two views: Tick, then UpdateNoTick on each view;
\* bounds and focus set in between
\* the bounds the game gives an object: the zero bounds it starts with, a
\* rectangle, a rectangle of width 0 away from the origin
BoundsOf(u) ==
    IF u = 1 THEN {<<0, 0, 0, 0>>, <<0, 0, 2, 1>>} ELSE {<<0, 0, 2, 1>>, <<1, 0, 0, 0>>}
\* a frame's input: the cursor inside or right of the rectangle; the left
\* button down with a key, or the button up and the wheel turned
FrameInputs ==
    {[mx |-> x, my |-> 0, left |-> b[1], right |-> FALSE, scrollY |-> b[2], keys |-> b[3]] :
        x \in {0, 2}, b \in {<<TRUE, 0, TRUE>>, <<FALSE, 1, FALSE>>}}

InitInput == InitUI

NextInput ==
    \/ \E u \in UIs, sz \in ViewSizes : newUI(u, sz[1], sz[2], "h", TRUE)
    \/ \E u \in UIs : \E b \in BoundsOf(u) : SetBounds(u, b[1], b[2], b[3], b[4])
    \/ \E u \in UIs : SetFocus(u)
    \/ ClearFocus
    \/ \E inp \in FrameInputs : host.frames < InputFrames /\ Tick(inp, {})
    \/ \E u \in UIs : UpdateNoTick(u)

SpecInput == InitInput /\ [][NextInput]_vars

\* one object over a 2 x 1 view drawn at the origin, through frames where
\* the cursor is inside (0) or right of the rectangle (5) and the left button
\* is held or not
MouseInputs ==
    {[mx |-> x, my |-> 0, left |-> b, right |-> FALSE, scrollY |-> 0, keys |-> FALSE] :
        x \in {0, 5}, b \in BOOLEAN}

InitMouse == InitUI

NextMouse ==
    \/ newUI(1, 2, 1, "h", TRUE)
    \/ SetBounds(1, 0, 0, 2, 1)
    \/ \E inp \in MouseInputs : Tick(inp, {})
    \/ UpdateNoTick(1)

SpecMouse == InitMouse /\ [][NextMouse]_vars

\* a program from its first NewFrom... call on: ensureULInit runs ul_init
\* once, and the constructors go on to create a view only if it returned no
\* error; objects are made and closed, so that the count comes to zero
InitOnce == InitBoot

NextOnce ==
    \/ \E o \in {"thread", "ok"} : ul_init(o)
    \/ \E u \in UIs, html \in {"", "h"}, engOk \in BOOLEAN :
          initRc = 0 /\ newUI(u, 2, 1, html, engOk)
    \/ \E engOk \in BOOLEAN :
          initRc = 0 /\ ul_create_view_with_url(2, 1, "u", engOk, TRUE)
    \/ \E u \in UIs : Close(u)
    \/ \E h \in Slots : ul_destroy_view(h)
    \/ ul_tick(Slots, {})

SpecOnce == InitOnce /\ [][NextOnce]_vars

\* a game with one view that calls Update, or Tick and UpdateNoTick, while
\* the page sends messages and the render paints or not; the bounds are
\* left as newUI made them, set to the view's rectangle, or set to zero
UpdateBounds == {<<0, 0, 2, 1>>, <<0, 0, 0, 0>>}

InitUpdate == InitUI

NextUpdate ==
    \/ newUI(1, 2, 1, "h", TRUE)
    \/ \E b \in UpdateBounds : SetBounds(1, b[1], b[2], b[3], b[4])
    \/ \E dirtySet \in SUBSET {0} : Tick(host.in, dirtySet)
    \/ UpdateNoTick(1)
    \/ \E dirtySet \in SUBSET {0} : Update(1, dirtySet)
    \/ \E msg \in {<<7>>, <<7, 8>>} : jsc_goSend_callback(0, msg)
    \/ Close(1)

SpecUpdate == InitUpdate /\ [][NextUpdate]_vars

\* ul_view_fire_mouse on one thread beside a Tick on the worker
InitPushRace ==
    /\ InitChan /\ platform = "posix" /\ callers = {1} /\ InitViewsStarted
    /\ uis = [u \in UIs |-> NoUI] /\ viewCount = 0 /\ host = NoHost
    /\ dest = NoDest /\ msgbuf = NoMsg
    /\ g_vfs_files = <<>> /\ fsOut = NoFsOut /\ disk = {}
    /\ InitQueueRace

NextPushRace ==
    \/ fire_mouse_check
    \/ fire_mouse_load
    \/ fire_mouse_store
    \/ fire_mouse_type
    \/ fire_mouse_rest
    \/ drain_begin
    \/ drain_step
    \/ drain_reset

SpecPushRace == InitPushRace /\ [][NextPushRace]_vars

\* the page's sends on the worker beside ul_view_get_message on a caller
InitMsgRace ==
    /\ InitChan /\ platform = "posix" /\ callers = {1} /\ InitViewsStarted
    /\ uis = [u \in UIs |-> NoUI] /\ viewCount = 0 /\ host = NoHost
    /\ dest = NoDest /\ msgbuf = NoMsg
    /\ g_vfs_files = <<>> /\ fsOut = NoFsOut /\ disk = {}
    /\ InitRingRace

NextMsgRace ==
    \/ goSend_check
    \/ goSend_write
    \/ goSend_head
    \/ goSend_load
    \/ goSend_store
    \/ get_message_check
    \/ get_message_copy
    \/ get_message_tail
    \/ get_message_load
    \/ get_message_store

SpecMsgRace == InitMsgRace /\ [][NextMsgRace]_vars

\* g_vfs_files[0] for one path: data is the entry's pointer (an allocation
\* number, 0 for NULL); live: the allocations not freed; rpc: the caller
\* inside ul_vfs_register; opc: the engine inside vfs_cb_open_file; held:
\* the data pointers of the buffers the engine holds
InitVfsRace ==
    /\ InitChan /\ platform = "posix" /\ callers = {1} /\ InitViewsStarted
    /\ uis = [u \in UIs |-> NoUI] /\ viewCount = 0 /\ host = NoHost
    /\ dest = NoDest /\ msgbuf = NoMsg
    /\ g_vfs_files = <<>> /\ fsOut = NoFsOut /\ disk = {}
    /\ thr = [kind |-> "vfs", g_vfs_count |-> 0, data |-> 0, live |-> {}, next |-> 1,
              rpc |-> "idle", opc |-> "idle", held |-> {},
              regs |-> 0, clears |-> 0, opens |-> 0]

\* registers with paths of every shape: plain, with a backslash, behind the
\* marker, behind a slash, the bare marker, the marker behind a slash or a
\* backslash, a backslash behind the marker, two leading slashes, empty
NormPaths == {A, BackAB, Marker \o A, <<"/">> \o A,
              Marker, <<"/">> \o Marker \o A, <<"\\">> \o Marker \o A,
              Marker \o <<"\\">> \o A, <<"/", "/">> \o A, <<>>}

InitNorm ==
    /\ InitChan /\ platform = "posix" /\ callers = {1} /\ InitViewsStarted /\ InitHost
    /\ disk = {}

NextNorm ==
    \/ \E p \in NormPaths, data \in Contents : ul_vfs_register(p, data)
    \/ \E p \in NormPaths, data \in Contents : RegisterFile(p, data)
    \/ ul_vfs_clear

SpecNorm == InitNorm /\ [][NextNorm]_vars

\* the engine's opens beside a caller's registers and clears
NextVfsRace ==
    \/ vfs_register_find
    \/ vfs_register_free
    \/ vfs_register_malloc
    \/ vfs_clear_all
    \/ vfs_open_find
    \/ vfs_open_wrap
    \/ engine_release

SpecVfsRace == InitVfsRace /\ [][NextVfsRace]_vars

(* ------------------------------------------------------------------ *)
(* The command channel                                                 *)
(* ------------------------------------------------------------------ *)

\* the calls the worker has executed so far
ExecutedCalls == {executed[i].call : i \in 1..Len(executed)}

\* C1: with a single calling thread, send_cmd returns only after the worker
\* has executed that very command; the commands are executed once each, in
\* the order they were submitted and with the arguments submitted; and the
\* worker never executes a command when none is pending.
C1_SingleCaller ==
    /\ Len(executed) <= Len(submitted)
    /\ \A i \in 1..Len(executed) :
          /\ executed[i].call = submitted[i].call
          /\ executed[i].cmd = submitted[i].cmd
          /\ executed[i].arg = submitted[i].call
    /\ \A t \in callers : pc[t] = "ret" =>
          /\ Len(executed) = Len(submitted)
          /\ executed[Len(executed)].call = CurCall(t)
          /\ wpc = "wait"
    /\ wpc = "exec" => wcmd # CMD_NONE /\ Len(executed) < Len(submitted)

\* a second call has returned, after the worker ran it
C1_Witness ==
    /\ callers = {1}
    /\ pc[1] = "ret"
    /\ ncalls[1] = 2
    /\ Len(executed) = 2

\* C2: with two or more threads inside send_cmd, a submitted command stays
\* in the mailbox until the worker takes it, every command is executed
\* exactly once and with its own arguments, a caller returns only after its
\* own command was executed, and each caller reads its own command's result.
C2_ConcurrentCallers ==
    /\ \A i \in 1..Len(submitted) :
          \/ submitted[i].call \in ExecutedCalls
          \/ submitted[i].call = g_cmd_owner
          \/ wpc = "exec" /\ submitted[i].call = wowner
    /\ \A i \in 1..Len(executed) : executed[i].arg = executed[i].call
    /\ \A i, j \in 1..Len(executed) : executed[i].call = executed[j].call => i = j
    /\ \A t \in callers : pc[t] = "ret" => CurCall(t) \in ExecutedCalls
    /\ \A t \in callers : pc[t] = "idle" /\ ncalls[t] > 0 => got[t] = CurCall(t)

\* C3: under a fair scheduler every call of send_cmd eventually returns.
C3_EveryCallReturns ==
    \A t \in Threads : [](pc[t] \notin {"idle", "ret"} => <>(pc[t] = "ret"))

(* ------------------------------------------------------------------ *)
(* Threads, handles and the view lifecycle                             *)
(* ------------------------------------------------------------------ *)

\* C4: every engine call an exported operation makes is made by the worker
\* thread; none, the pixel copy and the row-bytes query included, is made on
\* the calling thread.
C4_EngineOnWorker ==
    \A i \in 1..Len(calls) : calls[i].by = "worker"

\* the exported operations that take a view handle
PerViewOps ==
    {"ul_destroy_view", "ul_view_load_html", "ul_view_load_url", "ul_view_is_ready",
     "ul_view_get_width", "ul_view_get_height", "ul_view_get_row_bytes",
     "ul_view_get_pixels", "ul_view_unlock_pixels", "ul_view_copy_pixels_rgba",
     "ul_view_fire_mouse", "ul_view_fire_scroll", "ul_view_fire_key", "ul_view_eval_js"}

\* C5: once the view of a handle has been destroyed, every per-view
\* operation called with that handle does nothing and returns zero, in every
\* later state, also after a later create has reused the slot index.
C5_DestroyedHandleInert ==
    [][\A h \in destroyed :
          lastOp'.h = h /\ lastOp'.op \in PerViewOps =>
              /\ calls' = <<>>
              /\ lastOp'.rc = 0
              /\ g_views' = g_views
              /\ g_view_count' = g_view_count]_vars

\* C6: a view created asynchronously is Priming (load_phase 1) when the
\* create returns, ContentPending (2) from the 2nd Tick after it, Ready (0)
\* from the 5th, and ul_view_is_ready answers 0 before the 5th Tick has
\* completed and 1 from then on, as long as the view lives.
C6_AsyncPhases ==
    /\ \A i \in Slots : g_views[i].used /\ g_views[i].gh_async =>
          LET n == g_views[i].gh_ticks IN
          /\ n < 2 => g_views[i].load_phase = 1
          /\ n >= 2 /\ n < 5 => g_views[i].load_phase = 2
          /\ n >= 5 => g_views[i].load_phase = 0
          /\ is_ready(g_views, i) = IF n >= 5 THEN 1 ELSE 0
    /\ lastOp.op = "ul_create_view_async" /\ lastOp.rc >= 0 =>
          /\ g_views[lastOp.rc].load_phase = 1
          /\ g_views[lastOp.rc].gh_ticks = 0
    /\ lastOp.op = "ul_view_is_ready" /\ InRange(lastOp.h) =>
          LET v == g_views[lastOp.h] IN
          v.used /\ v.gh_async => lastOp.rc = IF v.gh_ticks >= 5 THEN 1 ELSE 0

\* an asynchronously created view answers "ready" right after its 5th Tick
C6_Witness ==
    \E i \in Slots :
        /\ g_views[i].used /\ g_views[i].gh_async /\ g_views[i].gh_ticks = 5
        /\ lastOp = [op |-> "ul_view_is_ready", h |-> i, rc |-> 1]

\* the exported operations that create a view
CreateOps ==
    {"ul_create_view", "ul_create_view_async", "ul_create_view_with_html",
     "ul_create_view_with_url"}

\* C7: once ul_init has returned non-zero, whatever failed, every later
\* exported command returns without a single engine call and every create
\* returns a negative value.
C7_FailedInitInert ==
    initRc \notin {NotCalled, 0} /\ lastOp.op # "ul_init" =>
        /\ calls = <<>>
        /\ lastOp.op \in CreateOps => lastOp.rc < 0

\* C8: with every slot in use a create returns a negative value, creates no
\* engine view and leaves the slot table as it is; a create that returns
\* h >= 0 returns a slot index that was unused before the call, and touches
\* no other slot.
C8_CreateSlots ==
    [][lastOp'.op \in CreateOps =>
          /\ (\A i \in Slots : g_views[i].used) =>
                /\ lastOp'.rc < 0
                /\ calls' = <<>>
                /\ g_views' = g_views
                /\ g_view_count' = g_view_count
          /\ lastOp'.rc >= 0 =>
                /\ lastOp'.rc \in Slots
                /\ ~g_views[lastOp'.rc].used
                /\ g_views'[lastOp'.rc].used
                /\ \A i \in Slots \ {lastOp'.rc} : g_views'[i] = g_views[i]]_vars

\* a create was refused because every slot is in use
C8_Witness ==
    /\ \A i \in Slots : g_views[i].used
    /\ lastOp.op \in CreateOps
    /\ lastOp.rc = -1

\* how many times cs destroys the engine view of slot h
DestroyCalls(cs, h) ==
    Cardinality({i \in 1..Len(cs) : cs[i].fn = "ulDestroyView" /\ cs[i].vid = h})

\* C9: ul_destroy_view on a handle whose view is already destroyed, or on a
\* handle out of range, changes nothing and makes no engine call, and so does
\* Close on an UltralightUI that is already closed; a destroy of a live view
\* destroys the engine view exactly once, decrements the view counters
\* exactly once and changes no other slot.
C9_DestroyIdempotent ==
    [][/\ lastOp'.op = "ul_destroy_view" =>
             LET h == lastOp'.h IN
             IF BadHandle(h)
               THEN /\ g_views' = g_views
                    /\ g_view_count' = g_view_count
                    /\ viewCount' = viewCount
                    /\ calls' = <<>>
               ELSE /\ DestroyCalls(calls', h) = 1
                    /\ Len(calls') = 1
                    /\ g_view_count' = g_view_count - 1
                    /\ ~g_views'[h].used
                    /\ \A i \in Slots \ {h} : g_views'[i] = g_views[i]
       /\ lastOp'.op = "Close" =>
             IF uis' = uis
               THEN /\ \E u \in UIs : uis[u].closed /\ uis[u].viewID = lastOp'.h
                    /\ g_views' = g_views
                    /\ g_view_count' = g_view_count
                    /\ viewCount' = viewCount
                    /\ g_worker_started' = g_worker_started
                    /\ calls' = <<>>
               ELSE \E u \in UIs :
                        /\ ~uis[u].closed /\ uis'[u].closed
                        /\ uis[u].viewID = lastOp'.h
                        /\ DestroyCalls(calls', lastOp'.h) =
                              IF g_worker_started /\ g_views[lastOp'.h].used THEN 1 ELSE 0
                        /\ viewCount' = IF viewCount > 1 THEN viewCount - 1 ELSE 0
                        /\ viewCount > 1 =>
                              /\ g_view_count' = g_view_count - DestroyCalls(calls', lastOp'.h)
                              /\ \A i \in Slots \ {lastOp'.h} : g_views'[i] = g_views[i]]_vars

\* a handle destroyed before was passed to ul_destroy_view again, after an
\* UltralightUI was closed
C9_Witness ==
    /\ lastOp.op = "ul_destroy_view"
    /\ lastOp.h \in destroyed
    /\ ~g_views[lastOp.h].used
    /\ calls = <<>>
    /\ \E u \in UIs : uis[u].closed

(* ------------------------------------------------------------------ *)
(* The input queues                                                    *)
(* ------------------------------------------------------------------ *)

\* the first n items of s
Take(s, n) == SubSeq(s, 1, IF Len(s) < n THEN Len(s) ELSE n)

\* the calls of fn on slot vid among cs, in order
CallsOf(cs, fn, vid) == SelectSeq(cs, LAMBDA c : c.fn = fn /\ c.vid = vid)

\* the queued scripts cs evaluates on slot vid (setup_js_bindings evaluates
\* a script of its own, logged without arguments)
ScriptsRun(cs, vid) ==
    SelectSeq(cs, LAMBDA c : c.fn = "ulViewEvaluateScript" /\ c.vid = vid /\ c.arg # <<>>)

\* the engine calls that dispatch the items of m / s / k / j to slot i
MouseCalls(views, i, m) == [n \in 1..Len(m) |-> MouseCall(views[i], i, m[n])]
ScrollCalls(i, s) == [n \in 1..Len(s) |-> ScrollCall(i, s[n])]
KeyCalls(i, k) == [n \in 1..Len(k) |-> KeyCall(i, k[n])]
ScriptCalls(i, j) == [n \in 1..Len(j) |-> ScriptCall(i, j[n])]

\* C10: for each of a view's input queues, when more items than its capacity
\* were pushed since the previous Tick, the Tick dispatches exactly the first
\* `capacity` items pushed, in push order; whatever was pushed after them is
\* dropped, and nothing pushed earlier is evicted by a later push.
C10_QueueOverflow ==
    [][lastOp'.op = "ul_tick" =>
          \A i \in Slots : g_views[i].used =>
              LET p == g_views[i].gh_pushed IN
              /\ Len(p.mouse) > MOUSE_QUEUE_MAX =>
                    CallsOf(calls', "ulViewFireMouseEvent", i)
                        = MouseCalls(g_views, i, Take(p.mouse, MOUSE_QUEUE_MAX))
              /\ Len(p.scroll) > SCROLL_QUEUE_MAX =>
                    CallsOf(calls', "ulViewFireScrollEvent", i)
                        = ScrollCalls(i, Take(p.scroll, SCROLL_QUEUE_MAX))
              /\ Len(p.key) > KEY_QUEUE_MAX =>
                    CallsOf(calls', "ulViewFireKeyEvent", i)
                        = KeyCalls(i, Take(p.key, KEY_QUEUE_MAX))
              /\ Len(p.js) > JS_QUEUE_MAX =>
                    ScriptsRun(calls', i)
                        = ScriptCalls(i, Take(p.js, JS_QUEUE_MAX))]_vars

\* a script ul_view_eval_js copies into a queue buffer
Fits(js) == js.len < JS_QUEUE_BUFLEN

\* what does hold, overflow or not: each queue dispatches the first
\* `capacity` items pushed, the script queue counted over the scripts that
\* fit a buffer
QueueOverflowOfFitting ==
    [][lastOp'.op = "ul_tick" =>
          \A i \in Slots : g_views[i].used =>
              LET p == g_views[i].gh_pushed IN
              /\ CallsOf(calls', "ulViewFireMouseEvent", i)
                    = MouseCalls(g_views, i, Take(p.mouse, MOUSE_QUEUE_MAX))
              /\ CallsOf(calls', "ulViewFireScrollEvent", i)
                    = ScrollCalls(i, Take(p.scroll, SCROLL_QUEUE_MAX))
              /\ CallsOf(calls', "ulViewFireKeyEvent", i)
                    = KeyCalls(i, Take(p.key, KEY_QUEUE_MAX))
              /\ ScriptsRun(calls', i)
                    = ScriptCalls(i, Take(SelectSeq(p.js, Fits), JS_QUEUE_MAX))]_vars

(* ------------------------------------------------------------------ *)
(* Dispatch order within one Tick                                      *)
(* ------------------------------------------------------------------ *)

DispatchFns == {"ulViewFireMouseEvent", "ulViewFireScrollEvent", "ulViewFireKeyEvent",
                "ulViewEvaluateScript"}

\* the calls among cs that dispatch a queued item, in the order made
Dispatched(cs) == SelectSeq(cs, LAMBDA c : c.fn \in DispatchFns /\ c.arg # <<>>)

\* the calls among cs that dispatch a queued item of slot vid
DispatchedTo(cs, vid) == SelectSeq(Dispatched(cs), LAMBDA c : c.vid = vid)

\* the position, within its own queue, of the n-th item stored
NthOfKind(order, n) == Cardinality({m \in 1..n : order[m] = order[n]})

\* the calls that dispatch the items stored in slot vid, in storing order
EnqueueOrderCalls(v, vid) ==
    LET order == v.gh_pushed.order IN
    [n \in 1..Len(order) |->
        LET k == NthOfKind(order, n) IN
        CASE order[n] = "mouse"  -> MouseCall(v, vid, v.mouse_queue[k])
          [] order[n] = "scroll" -> ScrollCall(vid, v.scroll_queue[k])
          [] order[n] = "key"    -> KeyCall(vid, v.key_queue[k])
          [] order[n] = "js"     -> ScriptCall(vid, v.js_queue[k])]

\* C11: a Tick dispatches the items stored in a view's queues since the
\* previous Tick, mouse, scroll, key and script items alike, in the order in
\* which they were stored; across views the dispatch goes by increasing slot
\* index.
C11_EnqueueOrder ==
    [][lastOp'.op = "ul_tick" =>
          /\ \A i \in Slots : g_views[i].used =>
                DispatchedTo(calls', i) = EnqueueOrderCalls(g_views[i], i)
          /\ LET d == Dispatched(calls') IN
             \A m, n \in 1..Len(d) : m < n => d[m].vid <= d[n].vid]_vars

\* what does hold: the items of one queue are dispatched in storing order,
\* the queues one after the other (mouse, scroll, key, script), the views by
\* increasing slot index
QueueByQueueOrder ==
    [][lastOp'.op = "ul_tick" =>
          /\ \A i \in Slots : g_views[i].used =>
                DispatchedTo(calls', i)
                    = MouseCalls(g_views, i, g_views[i].mouse_queue)
                        \o ScrollCalls(i, g_views[i].scroll_queue)
                        \o KeyCalls(i, g_views[i].key_queue)
                        \o ScriptCalls(i, g_views[i].js_queue)
          /\ LET d == Dispatched(calls') IN
             \A m, n \in 1..Len(d) : m < n => d[m].vid <= d[n].vid]_vars

(* ------------------------------------------------------------------ *)
(* The engine cycle of one Tick                                        *)
(* ------------------------------------------------------------------ *)

\* how many times cs calls fn
Count(cs, fn) == Len(SelectSeq(cs, LAMBDA c : c.fn = fn))

\* C12: a Tick command calls the engine's update, refresh and render once
\* each, whatever the number of views in use and whatever load phase a view
\* is in or passes through during that Tick.
C12_OneCyclePerTick ==
    (lastOp.op = "ul_tick" /\ g_worker_started) =>
        /\ Count(calls, "ulUpdate") = 1
        /\ Count(calls, "ulRefreshDisplay") = 1
        /\ Count(calls, "ulRender") = 1

\* what does hold: one update and one refresh per Tick, and one render for
\* the cycle plus one for each view that leaves a load phase in that Tick
OneUpdatePerTick ==
    (lastOp.op = "ul_tick" /\ g_worker_started) =>
        /\ Count(calls, "ulUpdate") = 1
        /\ Count(calls, "ulRefreshDisplay") = 1
        /\ Count(calls, "ulRender") >= 1
        /\ Count(calls, "ulRender") <= 1 + MAX_VIEWS

(* ------------------------------------------------------------------ *)
(* The pixel copy                                                      *)
(* ------------------------------------------------------------------ *)

CopyOp == "ul_view_copy_pixels_rgba"

\* C13: a copy that follows, with no other operation in between, a copy of
\* the same view that reported "updated" reports "no update" and writes no
\* byte of the destination; and any copy reports "updated" only when the
\* surface's dirty region is not empty, and then empties it.
C13_SecondCopyIdle ==
    [][lastOp'.op = CopyOp =>
          LET h == lastOp'.h IN
          /\ (lastOp.op = CopyOp /\ lastOp.h = h /\ lastOp.rc = 1) =>
                /\ lastOp'.rc = 0
                /\ dest'.written = {}
                /\ dest'.bytes = dest.bytes
          /\ lastOp'.rc = 1 =>
                /\ InRange(h)
                /\ g_views[h].dirty
                /\ ~g_views'[h].dirty]_vars

\* a copy reported "no update" right at the dirty-bounds test, for a view
\* whose pixels an earlier copy had put in the buffer
C13_Witness ==
    /\ lastOp.op = CopyOp /\ lastOp.rc = 0 /\ InRange(lastOp.h)
    /\ calls = <<C("ulSurfaceGetDirtyBounds", lastOp.h)>>
    /\ ~g_views[lastOp.h].dirty
    /\ dest.bytes[0] = Src(lastOp.h, 2)

\* C14: a copy into a destination smaller than width*height*4 bytes returns
\* "no update", writes no byte of the destination, leaves the surface
\* unlocked and leaves its dirty region as it was.
C14_SmallDestRejected ==
    [][\A h \in Slots, d \in DestSizes, lockOk \in BOOLEAN :
          ( /\ g_views[h].used /\ g_views[h].surface # "NULL" /\ ~g_views[h].locked
            /\ d < g_views[h].width * g_views[h].height * 4
            /\ ul_view_copy_pixels_rgba(h, d, lockOk) )
          => /\ lastOp'.rc = 0
             /\ dest'.written = {}
             /\ dest'.bytes = dest.bytes
             /\ ~g_views'[h].locked
             /\ g_views'[h].dirty = g_views[h].dirty]_vars

\* a copy of a painted view was turned down after the pixels were locked
C14_Witness ==
    /\ lastOp.op = CopyOp /\ lastOp.rc = 0 /\ InRange(lastOp.h)
    /\ Count(calls, "ulSurfaceUnlockPixels") = 1
    /\ g_views[lastOp.h].dirty
    /\ ~g_views[lastOp.h].locked

\* source channel of destination channel k: R,G,B,A from B,G,R,A
Channel(k) == IF k = 0 THEN 2 ELSE IF k = 2 THEN 0 ELSE k

\* C15: after a copy that reported "updated", the four destination bytes of
\* every pixel (x, y) at (y*width + x)*4 are the source bytes at
\* y*rowBytes + x*4 taken in the order [2],[1],[0],[3], whatever the row
\* stride; no destination byte outside [0, width*height*4) is written.
C15_BgraToRgba ==
    [][(lastOp'.op = CopyOp /\ lastOp'.rc = 1) =>
          LET h == lastOp'.h
              w == g_views[h].width
              ht == g_views[h].height
              rowBytes == RowBytes(g_views[h], h)
          IN  /\ \A x \in 0 .. (w - 1), y \in 0 .. (ht - 1), k \in 0 .. 3 :
                    dest'.bytes[(y * w + x) * 4 + k]
                        = Src(h, y * rowBytes + x * 4 + Channel(k))
              /\ dest'.written \subseteq 0 .. (w * ht * 4 - 1)
              /\ \A i \in DOMAIN dest.bytes :
                    i >= w * ht * 4 => dest'.bytes[i] = dest.bytes[i]]_vars

\* a view of two rows whose surface has padded rows was copied
C15_Witness ==
    /\ lastOp.op = CopyOp /\ lastOp.rc = 1
    /\ g_views[lastOp.h].height > 1
    /\ RowBytes(g_views[lastOp.h], lastOp.h) > g_views[lastOp.h].width * 4
    /\ dest.written # {}

(* ------------------------------------------------------------------ *)
(* The message queue                                                   *)
(* ------------------------------------------------------------------ *)

SendOp == "jsc_goSend_callback"
PollOp == "ul_view_get_message"

\* the messages in a slot's queue, oldest first
QueueSeq(v) ==
    [k \in 1 .. v.msg_count |-> v.msg_queue[(v.msg_tail + k - 1) % MSG_QUEUE_MAX]]

\* C16: a send to a view whose queue already holds MSG_QUEUE_MAX messages is
\* discarded: the queued messages are left as they are, none is evicted, and
\* the polls that follow take them oldest first.
C16_FullQueueRejects ==
    [][/\ lastOp'.op = SendOp =>
             LET v == g_views[lastOp'.h] IN
             v.msg_count = MSG_QUEUE_MAX =>
                 /\ QueueSeq(g_views'[lastOp'.h]) = QueueSeq(v)
                 /\ g_views'[lastOp'.h].msg_count = MSG_QUEUE_MAX
                 /\ g_views'[lastOp'.h].msg_tail = v.msg_tail
       /\ (lastOp'.op = PollOp /\ lastOp'.rc > 0) =>
             LET v == g_views[lastOp'.h] IN
             /\ msgbuf'.buf = Prefix(Head(QueueSeq(v)), lastOp'.rc)
             /\ QueueSeq(g_views'[lastOp'.h]) = Tail(QueueSeq(v))]_vars

\* a message that fits a buffer was sent to a full queue and not stored
C16_Witness ==
    /\ lastOp.op = SendOp
    /\ g_views[lastOp.h].msg_count = MSG_QUEUE_MAX
    /\ MaximumUTF8CStringSize(calls[1].arg) < MSG_QUEUE_BUFLEN
    /\ Count(calls, "JSStringGetUTF8CString") = 0

\* C17: a poll of a view with accepted messages gives the host the oldest
\* accepted message not yet polled, with the bytes and the length it was
\* sent with; a poll of a view without any gives none.  Hence each accepted
\* message is returned once, and in sending order.
C17_ExactDelivery ==
    [][lastOp'.op = PollOp =>
          LET h == lastOp'.h IN
          (InRange(h) /\ g_views[h].used) =>
              IF g_views[h].gh_sent # <<>>
                THEN /\ msgbuf'.ok
                     /\ msgbuf'.text = Head(g_views[h].gh_sent)
                     /\ lastOp'.rc = Len(Head(g_views[h].gh_sent))
                ELSE ~msgbuf'.ok]_vars

\* what does hold: the polls take the accepted messages once each and in
\* sending order, and give the host the bytes sent when the message is not
\* empty and is shorter than the poll buffer
DeliveryOfShort ==
    [][lastOp'.op = PollOp =>
          LET h == lastOp'.h IN
          (InRange(h) /\ g_views[h].used) =>
              IF g_views[h].gh_sent # <<>>
                THEN LET m == Head(g_views[h].gh_sent) IN
                     /\ msgbuf'.buf = Prefix(m, PollBufSize - 1)
                     /\ g_views'[h].gh_sent = Tail(g_views[h].gh_sent)
                     /\ QueueSeq(g_views[h]) = g_views[h].gh_sent
                     /\ (Len(m) > 0 /\ Len(m) < PollBufSize) =>
                            (msgbuf'.ok /\ msgbuf'.text = m /\ lastOp'.rc = Len(m))
                ELSE ~msgbuf'.ok]_vars

(* ------------------------------------------------------------------ *)
(* The virtual file system                                             *)
(* ------------------------------------------------------------------ *)

RegisterOps == {"ul_vfs_register", "RegisterFile"}

\* the last call stored data in the table
Registered(out) == out.op \in RegisterOps /\ out.rc = 0 /\ out.buf.found

Base(s) == CHOOSE p \in BasePaths : s \in Spellings(p)

\* C19: two path strings that differ only by a leading file:/// marker, by
\* backslashes versus slashes or by leading slashes address the same entry:
\* a file registered under one spelling is found by exists and by open under
\* every other spelling of the same path.
C19_SpellingsAgree ==
    [][Registered(fsOut') =>
          \A s \in Spellings(Base(fsOut'.path)) :
              /\ file_exists(g_vfs_files', disk, s)
              /\ open_file(g_vfs_files', disk, s) = fsOut'.buf]_vars

\* what does hold: the spellings that fit a path buffer agree
SpellingsThatFitAgree ==
    [][(Registered(fsOut') /\ Len(fsOut'.path) < VFS_PATH_MAX) =>
          \A s \in Spellings(Base(fsOut'.path)) :
              Len(s) < VFS_PATH_MAX =>
                  /\ file_exists(g_vfs_files', disk, s)
                  /\ open_file(g_vfs_files', disk, s) = fsOut'.buf]_vars

LookupOps == {"vfs_cb_file_exists", "vfs_cb_open_file"}

\* C20: exists and open look in the table first: a registered path yields the
\* registered bytes whatever the disk holds; an unregistered path yields the
\* file under the base directory when there is one; with neither, open
\* returns NULL and exists returns false; and exists(p) is true exactly when
\* open(p) returns data.
C20_TableThenDisk ==
    fsOut.op \in LookupOps =>
        LET p == fsOut.path
            norm == vfs_extract_path(p)
            idx == vfs_find(g_vfs_files, norm)
            found == IF fsOut.op = "vfs_cb_open_file" THEN fsOut.buf.found ELSE fsOut.rc = 1
        IN  /\ idx > 0 => found
            /\ (idx > 0 /\ fsOut.op = "vfs_cb_open_file") =>
                   fsOut.buf = Buffer(g_vfs_files[idx].data)
            /\ (idx = 0 /\ OnDisk(disk, norm)) => found
            /\ (idx = 0 /\ OnDisk(disk, norm) /\ fsOut.op = "vfs_cb_open_file") =>
                   fsOut.buf = Buffer(DiskFile(disk, norm).data)
            /\ (idx = 0 /\ ~OnDisk(disk, norm)) => ~found
            /\ file_exists(g_vfs_files, disk, p) = open_file(g_vfs_files, disk, p).found

\* what does hold: the same, for a base directory without empty files
TableThenDiskOfNonEmpty ==
    (fsOut.op \in LookupOps /\ \A f \in disk : f.data # <<>>) =>
        LET p == fsOut.path
            norm == vfs_extract_path(p)
            idx == vfs_find(g_vfs_files, norm)
            found == IF fsOut.op = "vfs_cb_open_file" THEN fsOut.buf.found ELSE fsOut.rc = 1
        IN  /\ idx > 0 => found
            /\ (idx > 0 /\ fsOut.op = "vfs_cb_open_file") =>
                   fsOut.buf = Buffer(g_vfs_files[idx].data)
            /\ (idx = 0 /\ OnDisk(disk, norm)) => found
            /\ (idx = 0 /\ OnDisk(disk, norm) /\ fsOut.op = "vfs_cb_open_file") =>
                   fsOut.buf = Buffer(DiskFile(disk, norm).data)
            /\ (idx = 0 /\ ~OnDisk(disk, norm)) => ~found
            /\ file_exists(g_vfs_files, disk, p) = open_file(g_vfs_files, disk, p).found

\* the key under which a registration call looks its path up
KeyOf(out) ==
    vfs_normalize_path(IF out.op = "RegisterFile" THEN GoNorm(out.path) ELSE out.path,
                       VFS_PATH_MAX)

\* the step is an explicit ul_vfs_clear call
ClearStep == fsOut' # fsOut /\ fsOut'.op = "ul_vfs_clear"

\* the step is a registration of a path whose key is key
RegisterStep(key) ==
    /\ fsOut' # fsOut
    /\ fsOut'.op \in RegisterOps
    /\ KeyOf(fsOut') = key

\* C21: an entry of the table stays where it is, with its bytes, across every
\* operation that is neither a registration of its key nor an explicit
\* ul_vfs_clear: creating, ticking, destroying and closing views, the last
\* one included, and the teardown leave every entry alone.
C21_EntriesPersist ==
    [][\A i \in 1 .. Len(g_vfs_files) :
          (~ClearStep /\ ~RegisterStep(g_vfs_files[i].path)) =>
              /\ Len(g_vfs_files') >= i
              /\ g_vfs_files'[i] = g_vfs_files[i]]_vars

\* what does hold: the same while the Go view counter stays above zero and
\* ul_destroy is not called
EntriesPersistWhileViews ==
    [][\A i \in 1 .. Len(g_vfs_files) :
          ( /\ ~ClearStep /\ ~RegisterStep(g_vfs_files[i].path)
            /\ lastOp'.op # "ul_destroy"
            /\ ~(lastOp'.op = "Close" /\ viewCount' = 0) ) =>
              /\ Len(g_vfs_files') >= i
              /\ g_vfs_files'[i] = g_vfs_files[i]]_vars

\* the keys of a table
Keys(files) == {files[i].path : i \in 1 .. Len(files)}

\* the call went to ul_vfs_register: RegisterFile returns before it for
\* empty data
ReachedTable(out) ==
    \/ out.op = "ul_vfs_register"
    \/ out.op = "RegisterFile" /\ (out.rc # 0 \/ out.buf.found)

\* the step is a registration made on a full table
RegisterAtCapacity ==
    /\ fsOut' # fsOut
    /\ ReachedTable(fsOut')
    /\ Len(g_vfs_files) = VFS_MAX_FILES

\* C22: the table never holds more than VFS_MAX_FILES entries. On a full
\* table the registration of a new path returns non-zero and leaves the
\* table and the count as they were; the registration of a path the table
\* holds returns 0, puts the new bytes in its entry and leaves the rest.
C22_CapacityBound ==
    [][/\ Len(g_vfs_files') <= VFS_MAX_FILES
       /\ RegisterAtCapacity =>
            LET key == KeyOf(fsOut') IN
            IF key \in Keys(g_vfs_files)
              THEN /\ fsOut'.rc = 0
                   /\ Len(g_vfs_files') = VFS_MAX_FILES
                   /\ \A i \in 1 .. VFS_MAX_FILES :
                         /\ g_vfs_files'[i].path = g_vfs_files[i].path
                         /\ g_vfs_files'[i].data =
                               IF g_vfs_files[i].path = key THEN fsOut'.buf.data
                               ELSE g_vfs_files[i].data
              ELSE /\ fsOut'.rc # 0
                   /\ g_vfs_files' = g_vfs_files]_vars

\* a registration of a new path was turned down by the full table
C22_Witness ==
    /\ fsOut.op \in RegisterOps
    /\ fsOut.rc = -3
    /\ Len(g_vfs_files) = VFS_MAX_FILES
    /\ KeyOf(fsOut) \notin Keys(g_vfs_files)

\* a registration at capacity put new bytes in the entry of its path
ReplacedAtCapacity ==
    /\ Registered(fsOut) /\ fsOut.hit
    /\ Len(g_vfs_files) = VFS_MAX_FILES
    /\ \E i \in 1 .. VFS_MAX_FILES :
          g_vfs_files[i].path = KeyOf(fsOut) /\ g_vfs_files[i].data = fsOut.buf.data

(* ------------------------------------------------------------------ *)
(* The view counter of the Go package                                  *)
(* ------------------------------------------------------------------ *)

\* the step in which the worker runs CMD_QUIT
QuitStep == g_worker_started /\ ~g_worker_started'

\* C23: with views made and closed side by side, ul_destroy never runs while
\* a view exists that was created and is not closed, and the counter is zero
\* only when no unclosed UltralightUI holds a slot of the bridge.
C23_NoDestroyUnderLiveView ==
    [][/\ QuitStep =>
             \A u \in DOMAIN uis : uis[u].viewID >= 0 => uis'[u].closed
       /\ viewCount' = 0 =>
             \A u \in DOMAIN uis : uis'[u].made => uis'[u].closed]_vars

(* ------------------------------------------------------------------ *)
(* The teardown                                                        *)
(* ------------------------------------------------------------------ *)

\* the engine's view of slot i was destroyed by the step, before the renderer
DestroyedBeforeRenderer(cs, i) ==
    \E k \in 1 .. Len(cs) :
       /\ cs[k] = W("ulDestroyView", i)
       /\ \A j \in 1 .. k : cs[j] # W("ulDestroyRenderer", -1)

\* C24: ul_destroy on a running worker destroys every used view, releases
\* the renderer and stops the worker before it returns; from then on no slot
\* is used, the renderer is null, the worker is stopped, and every later
\* call returns without a call into the engine and without a change of the
\* slots, a create with a negative code.
C24_QuitThenNoOps ==
    [][/\ (g_worker_started /\ lastOp'.op = "ul_destroy") =>
             /\ \A i \in Slots : ~g_views'[i].used
             /\ \A i \in Slots :
                   (g_views[i].used /\ g_views[i].view # "NULL") =>
                       DestroyedBeforeRenderer(calls', i)
             /\ g_renderer # "NULL" =>
                   calls' # <<>> /\ calls'[Len(calls')] = W("ulDestroyRenderer", -1)
             /\ g_renderer' = "NULL"
             /\ g_view_count' = 0
             /\ ~g_worker_started'
       /\ ~g_worker_started =>
             /\ \A i \in Slots : ~g_views[i].used
             /\ g_renderer = "NULL"
             /\ g_views' = g_views /\ g_view_count' = g_view_count
             /\ calls' = <<>>
             /\ g_renderer' = "NULL" /\ ~g_worker_started'
             /\ lastOp'.op \in CreateOps => lastOp'.rc < 0]_vars

\* after a teardown that destroyed two views, a create was turned down
C24_Witness ==
    /\ ~g_worker_started
    /\ destroyed = Slots
    /\ lastOp.op \in CreateOps
    /\ lastOp.rc < 0

(* ------------------------------------------------------------------ *)
(* Readiness of the views created synchronously                        *)
(* ------------------------------------------------------------------ *)

\* C25: a view made by the synchronous create or by the create-with-content
\* paths is ready from its creation until it is destroyed, whatever the slot
\* held before: ul_view_is_ready on its handle returns 1.
C25_SyncViewsReady ==
    \A i \in Slots :
       (g_views[i].used /\ ~g_views[i].gh_async) =>
          /\ is_ready(g_views, i) = 1
          /\ (lastOp.op = "ul_view_is_ready" /\ lastOp.h = i) => lastOp.rc = 1

\* a view made synchronously in a slot that an asynchronous view left
\* (the slot keeps that view's pending_is_url) was asked and is ready
C25_Witness ==
    \E i \in Slots :
       /\ g_views[i].used /\ ~g_views[i].gh_async
       /\ g_views[i].pending_is_url
       /\ i \in destroyed
       /\ lastOp = [op |-> "ul_view_is_ready", h |-> i, rc |-> 1]

(* ------------------------------------------------------------------ *)
(* Input routing                                                       *)
(* ------------------------------------------------------------------ *)

\* the events the step pushed for view h on queue q
NewEvents(h, q) ==
    SubSeq(g_views'[h].gh_pushed[q], Len(g_views[h].gh_pushed[q]) + 1,
           Len(g_views'[h].gh_pushed[q]))

\* C26: the key events of a frame go to one view at most, the view whose id
\* is the focused view id; and while the focused view id is -1, as after
\* ClearFocus, no view is forwarded a key event.
C26_KeysToOneFocusedView ==
    [][/\ \A h \in Slots :
             NewEvents(h, "key") # <<>> =>
                /\ host'.focusedViewID = h
                /\ \A h2 \in Slots \ {h} : g_views'[h2].gh_pushed.key = <<>>
       /\ (host.focusedViewID = -1 /\ host'.focusedViewID = -1) =>
             \A h \in Slots : NewEvents(h, "key") = <<>>]_vars

\* what does hold: key events go to the view that is focused when they are
\* forwarded, and to none while the focused view id stays -1
KeysToFocusedView ==
    [][/\ \A h \in Slots : NewEvents(h, "key") # <<>> => host'.focusedViewID = h
       /\ (host.focusedViewID = -1 /\ host'.focusedViewID = -1) =>
             \A h \in Slots : NewEvents(h, "key") = <<>>]_vars

\* the frame's cursor, less the offset, lies in the rectangle of the bounds
InRect(ui, hst) ==
    LET mx == hst.in.mx - hst.GlobalCursorOffsetX
        my == hst.in.my - hst.GlobalCursorOffsetY
    IN  /\ mx >= ui.BoundsX /\ mx < ui.BoundsX + ui.BoundsW
        /\ my >= ui.BoundsY /\ my < ui.BoundsY + ui.BoundsH

\* the step pushed a button or a scroll event for view h
ButtonOrScroll(h) ==
    \/ \E k \in 1 .. Len(NewEvents(h, "mouse")) :
          NewEvents(h, "mouse")[k].type \in {mouseEventTypeDown, mouseEventTypeUp}
    \/ NewEvents(h, "scroll") # <<>>

\* C27: a button Down or Up or a scroll event is pushed for a view only in a
\* frame whose cursor, less the offset, lies inside the rectangle of the
\* object's bounds; and an object with bounds (0,0,0,0) pushes no input
\* event.
C27_InputInsideBounds ==
    [][\A u \in UIs :
          (uis[u].made /\ ~uis[u].closed) =>
             LET h == uis[u].viewID IN
             /\ ButtonOrScroll(h) => InRect(host.ui[u], host)
             /\ isHidden(host.ui[u]) =>
                   \A q \in {"mouse", "scroll", "key"} : NewEvents(h, q) = <<>>]_vars

\* what does hold: the same for bounds of positive width and height
InputInsidePositiveBounds ==
    [][\A u \in UIs :
          (uis[u].made /\ ~uis[u].closed) =>
             LET h == uis[u].viewID IN
             /\ (ButtonOrScroll(h) /\ host.ui[u].BoundsW > 0 /\ host.ui[u].BoundsH > 0) =>
                   InRect(host.ui[u], host)
             /\ isHidden(host.ui[u]) =>
                   \A q \in {"mouse", "scroll", "key"} : NewEvents(h, q) = <<>>]_vars

\* a button event went to a view whose bounds are a rectangle
ButtonInsideRect ==
    \E u \in UIs :
       /\ uis[u].made /\ host.ui[u].BoundsW > 0 /\ host.ui[u].leftDown
       /\ g_views[uis[u].viewID].gh_pushed.mouse # <<>>

(* ------------------------------------------------------------------ *)
(* Pushes beside a Tick                                                *)
(* ------------------------------------------------------------------ *)

Elems(sq) == {sq[i] : i \in 1 .. Len(sq)}

\* C28: an event that ul_view_fire_mouse accepted is dispatched once, with
\* the field values pushed, by the Tick that follows, also when the push
\* runs beside a Tick: nothing dispatched that was not pushed, nothing
\* dispatched twice, and with both threads at rest every accepted event is
\* either dispatched or still in the queue.
C28_ExactlyOnce ==
    thr.kind = "queue" =>
       /\ Elems(thr.dispatched) \subseteq Elems(thr.accepted)
       /\ \A i, j \in 1 .. Len(thr.dispatched) :
             i # j => thr.dispatched[i] # thr.dispatched[j]
       /\ (thr.cpc = "idle" /\ thr.wpc = "idle") =>
             Elems(thr.accepted) =
                Elems(thr.dispatched)
                   \cup {thr.mouse_queue[i] : i \in 0 .. thr.mouse_count - 1}

(* ------------------------------------------------------------------ *)
(* Sends beside polls                                                  *)
(* ------------------------------------------------------------------ *)

\* C29: with the worker storing messages while a caller takes them out, no
\* message is lost, doubled or cut; 0 <= msg_count <= MSG_QUEUE_MAX always,
\* and between calls msg_head = (msg_tail + msg_count) mod MSG_QUEUE_MAX and
\* msg_count = stores - takes.
C29_RingConsistent ==
    thr.kind = "ring" =>
       /\ thr.msg_count >= 0 /\ thr.msg_count <= MSG_QUEUE_MAX
       /\ Len(thr.got) <= Len(thr.sent)
       /\ thr.got = SubSeq(thr.sent, 1, Len(thr.got))
       /\ (thr.wpc = "idle" /\ thr.cpc = "idle") =>
             /\ thr.msg_head = (thr.msg_tail + thr.msg_count) % MSG_QUEUE_MAX
             /\ thr.msg_count = Len(thr.sent) - thr.pops

(* ------------------------------------------------------------------ *)
(* Opens beside registers and clears                                   *)
(* ------------------------------------------------------------------ *)

\* C30: a lookup of the table and a change of the table never overlap, and
\* the data of a buffer vfs_cb_open_file returned is neither freed nor
\* replaced while the engine holds the buffer.
C30_BuffersStayLive ==
    thr.kind = "vfs" =>
       /\ ~(thr.opc = "wrap" /\ thr.rpc \in {"free", "malloc"})
       /\ thr.held \subseteq thr.live
       /\ thr.held \subseteq {thr.data}

(* ------------------------------------------------------------------ *)
(* The load phase                                                      *)
(* ------------------------------------------------------------------ *)

\* load_phase: 1 priming, 2 post-load (content pending), 0 ready
PhaseStep(a, b) == (a = 1 /\ b = 2) \/ (a = 2 /\ b = 0)

\* C31: the load_phase of an occupied slot changes only in a Tick, one step
\* forward (priming -> content pending -> ready); no create of another view,
\* no load, no destroy and no call that stays on the calling thread changes it.
C31_PhaseOnlyByTick ==
    [][\A i \in Slots :
          (g_views[i].used /\ g_views'[i].load_phase # g_views[i].load_phase) =>
             /\ lastOp'.op = "ul_tick"
             /\ PhaseStep(g_views[i].load_phase, g_views'[i].load_phase)]_vars

\* the same for a slot that keeps its occupant
PhaseOfKeptSlot ==
    [][\A i \in Slots :
          (g_views[i].used /\ g_views'[i].used
             /\ g_views'[i].load_phase # g_views[i].load_phase) =>
             /\ lastOp'.op = "ul_tick"
             /\ PhaseStep(g_views[i].load_phase, g_views'[i].load_phase)]_vars

(* ------------------------------------------------------------------ *)
(* The pending content                                                 *)
(* ------------------------------------------------------------------ *)

\* the content loads the worker made for slot vid in cs
ContentLoads(cs, vid) ==
    SelectSeq(cs, LAMBDA c : c.fn \in {"ulViewLoadURL", "ulViewLoadHTML"}
                             /\ c.by = "worker" /\ c.vid = vid)

HoldsPending(views) ==
    \A i \in Slots :
        (views[i].pending_load_str # "NULL") <=> (views[i].used /\ views[i].load_phase = 1)

CallsTo(cs, fn, vid) == SelectSeq(cs, LAMBDA c : c.fn = fn /\ c.vid = vid)

\* runs of setup_js_bindings on slot vid that reached the engine, and those
\* that found the script context
Attempts(cs, vid) == Len(CallsTo(cs, "ulViewLockJSContext", vid))
Installs(cs, vid) == Len(CallsTo(cs, "JSObjectSetProperty", vid))

LoadOps == {"ul_view_load_html", "ul_view_load_url"}

\* C33: a load on an existing view clears js_bound and runs the installation
\* again; after the command js_bound is true only if that installation
\* succeeded against the new script context.
C33_ReloadRebinds ==
    [][(lastOp'.op \in LoadOps /\ InRange(lastOp'.h) /\ calls' # <<>>) =>
          LET h == lastOp'.h IN
          /\ Attempts(calls', h) = 1
          /\ g_views'[h].js_bound <=> Installs(calls', h) = 1
          /\ g_views'[h].js_bound => g_views'[h].gh_installed]_vars

\* the same for the loads that find the script context
ReloadRebindsWithContext ==
    [][(lastOp'.op \in LoadOps /\ InRange(lastOp'.h) /\ calls' # <<>>
          /\ Installs(calls', lastOp'.h) = 1) =>
          /\ g_views'[lastOp'.h].js_bound
          /\ g_views'[lastOp'.h].gh_installed]_vars

\* in cs every run of setup_js_bindings on slot vid comes before every event
\* and script dispatched to it
BindsBeforeDrain(cs, vid) ==
    \A a, b \in 1..Len(cs) :
        (cs[a].vid = vid /\ cs[b].vid = vid /\ cs[a].fn = "ulViewLockJSContext"
            /\ cs[b].fn \in DispatchFns /\ cs[b].arg # <<>>) => a < b

\* C34: a Tick runs the installation again, before it drains the queues, for
\* every used slot that is ready and whose script context lacks the bindings,
\* and they are installed at the end of the Tick that finds the context; it
\* runs none for a slot that is priming or waiting for its content, and none
\* for a slot whose bindings are installed.
C34_RetryUntilBound ==
    [][lastOp'.op = "ul_tick" =>
          \A i \in Slots : g_views[i].used =>
              /\ (g_views[i].load_phase = 0 /\ ~g_views[i].gh_installed) =>
                    /\ Attempts(calls', i) = 1
                    /\ BindsBeforeDrain(calls', i)
                    /\ g_views'[i].gh_installed <=> Installs(calls', i) = 1
              /\ (g_views[i].load_phase = 0 /\ g_views[i].gh_installed) =>
                    Attempts(calls', i) = 0
              /\ g_views'[i].load_phase # 0 => Attempts(calls', i) = 0]_vars

\* the same with the slot's js_bound flag in the place of the bindings
RetryWhileFlagClear ==
    [][lastOp'.op = "ul_tick" =>
          \A i \in Slots : g_views[i].used =>
              /\ (g_views[i].load_phase = 0 /\ ~g_views[i].js_bound) =>
                    /\ Attempts(calls', i) = 1
                    /\ BindsBeforeDrain(calls', i)
                    /\ g_views'[i].js_bound <=> Installs(calls', i) = 1
              /\ (g_views[i].load_phase = 0 /\ g_views[i].js_bound) =>
                    Attempts(calls', i) = 0
              /\ g_views'[i].load_phase # 0 => Attempts(calls', i) = 0]_vars

(* ------------------------------------------------------------------ *)
(* The keys of the table                                               *)
(* ------------------------------------------------------------------ *)

HasMarker(p) == Len(p) >= MarkerLen /\ SubSeq(p, 1, MarkerLen) = Marker

\* no backslash, no leading slash, no leading marker
NormalForm(p) ==
    /\ \A i \in 1 .. Len(p) : p[i] # "\\"
    /\ p # <<>> => Head(p) # "/"
    /\ ~HasMarker(p)

\* C35: whatever paths the register calls were given, every key of the table
\* is in normal form, and normalising a key gives the key back.
C35_KeysNormal ==
    \A i \in 1 .. Len(g_vfs_files) :
        /\ NormalForm(g_vfs_files[i].path)
        /\ vfs_normalize_path(g_vfs_files[i].path, VFS_PATH_MAX) = g_vfs_files[i].path

\* the keys never hold a backslash or a leading slash
KeysWithoutSlashes ==
    \A i \in 1 .. Len(g_vfs_files) :
        LET p == g_vfs_files[i].path IN
        /\ \A j \in 1 .. Len(p) : p[j] # "\\"
        /\ p # <<>> => Head(p) # "/"

(* ------------------------------------------------------------------ *)
(* The clamp of the mouse coordinates                                  *)
(* ------------------------------------------------------------------ *)

\* the mouse events cs dispatched to slot vid
MouseDispatched(cs, vid) ==
    SelectSeq(cs, LAMBDA c : c.fn = "ulViewFireMouseEvent" /\ c.vid = vid)

\* C36: every mouse event a Tick dispatches has 0 <= x < width and
\* 0 <= y < height of its view, whatever coordinates were queued and whatever
\* size the create accepted, and it has the queued type and button.
C36_ClampedIntoView ==
    [][lastOp'.op = "ul_tick" =>
          \A i \in Slots : g_views[i].used =>
              LET q == g_views[i].mouse_queue
                  d == MouseDispatched(calls', i)
              IN  /\ Len(d) = Len(q)
                  /\ \A n \in 1 .. Len(d) :
                        /\ d[n].arg[1] = q[n].type
                        /\ d[n].arg[4] = q[n].button
                        /\ 0 <= d[n].arg[2] /\ d[n].arg[2] < g_views[i].width
                        /\ 0 <= d[n].arg[3] /\ d[n].arg[3] < g_views[i].height]_vars

\* the same where the view's width and height are positive; otherwise the
\* coordinate is only kept from being negative
ClampedIntoPositiveView ==
    [][lastOp'.op = "ul_tick" =>
          \A i \in Slots : g_views[i].used =>
              LET q == g_views[i].mouse_queue
                  d == MouseDispatched(calls', i)
              IN  /\ Len(d) = Len(q)
                  /\ \A n \in 1 .. Len(d) :
                        /\ d[n].arg[1] = q[n].type
                        /\ d[n].arg[4] = q[n].button
                        /\ 0 <= d[n].arg[2] /\ 0 <= d[n].arg[3]
                        /\ g_views[i].width > 0 => d[n].arg[2] < g_views[i].width
                        /\ g_views[i].height > 0 => d[n].arg[3] < g_views[i].height]_vars

\* the events forwardInput queued for view vid in a step, given the queue
\* before and after it, when nothing was dispatched in between
QueuedInStep(before, after) == SubSeq(after, Len(before) + 1, Len(after))

\* a queued leave move: forwardInput's move to (-1, -1)
IsLeaveMove(e) == e.type = mouseEventTypeMoved /\ e.x < 0 /\ e.y < 0

\* C37: the move event queued when the cursor leaves the bounds reaches the
\* engine with coordinates outside the view's area [0,width) x [0,height).
C37_LeaveMoveOutside ==
    [][lastOp'.op = "Tick" =>
          \A i \in Slots : g_views[i].used =>
              LET q == g_views[i].mouse_queue
                  d == MouseDispatched(calls', i)
              IN  \A n \in 1 .. Len(q) :
                      IsLeaveMove(q[n]) =>
                          /\ n <= Len(d)
                          /\ ~ (/\ 0 <= d[n].arg[2] /\ d[n].arg[2] < g_views[i].width
                                /\ 0 <= d[n].arg[3] /\ d[n].arg[3] < g_views[i].height)]_vars

\* what forwardInput does on its side: the frame where the cursor leaves
\* queues exactly one move, to (-1, -1), and the frames where it stays
\* outside queue no move
OneLeaveMoveQueued ==
    [][(1 \notin host.updated /\ 1 \in host'.updated /\ uis[1].made /\ ~uis[1].closed
        /\ ~host'.ui[1].mouseInside) =>
          LET vid == uis[1].viewID
              added == QueuedInStep(g_views[vid].mouse_queue, g_views'[vid].mouse_queue)
              moves == SelectSeq(added, LAMBDA e : e.type = mouseEventTypeMoved)
          IN  IF host.ui[1].mouseInside
                THEN Len(moves) = 1 /\ IsLeaveMove(moves[1])
                ELSE moves = <<>>]_vars

\* the events of the left button that an UpdateNoTick of object 1 queued
LeftQueued(type) ==
    SelectSeq(QueuedInStep(g_views[uis[1].viewID].mouse_queue,
                           g_views'[uis[1].viewID].mouse_queue),
              LAMBDA e : e.type = type /\ e.button = mouseButtonLeft)

\* an UpdateNoTick of object 1, open and drawn somewhere
UpdatesShown ==
    /\ 1 \notin host.updated /\ 1 \in host'.updated
    /\ uis[1].made /\ ~uis[1].closed /\ ~isHidden(host.ui[1])

\* C40: a Down event forwarded for the left button is followed by an Up event
\* for it in the update that sees the button released, wherever the cursor is
\* then; and a press that began outside the bounds forwards no Down while the
\* button stays held.
C40_DownHasUp ==
    [][UpdatesShown =>
          /\ (host.ui[1].leftDown /\ ~host.in.left) => Len(LeftQueued(mouseEventTypeUp)) = 1
          /\ (host.ui[1].leftOutside /\ host.in.left) =>
                LeftQueued(mouseEventTypeDown) = <<>>]_vars

\* the part that holds: the Up event is forwarded when the release is seen
\* with the cursor inside the bounds, and a press that began outside
\* forwards no Down while the button stays held
UpWhenReleasedInside ==
    [][UpdatesShown =>
          /\ (host.ui[1].leftDown /\ ~host.in.left /\ inBounds(host.ui[1], host.in.mx, host.in.my))
                => Len(LeftQueued(mouseEventTypeUp)) = 1
          /\ (host.ui[1].leftOutside /\ host.in.left) =>
                LeftQueued(mouseEventTypeDown) = <<>>]_vars

\* the step is an Update or an UpdateNoTick of object 1, which is not closed
UpdateStep ==
    /\ uis[1].made /\ ~uis[1].closed
    /\ \/ lastOp'.op = "Update" /\ host'.frames # host.frames
       \/ lastOp'.op = "UpdateNoTick" /\ host'.updated # host.updated

\* the update polled the messages that were pending
PolledAll == g_views'[uis[1].viewID].msg_count = 0

\* the update attempted the pixel copy, and what the render had painted
\* reached the texture: nothing is left dirty, and the texture was written
\* if the surface was dirty before the call or painted by it
CopiedToTexture ==
    LET vid == uis[1].viewID IN
    /\ \E n \in 1 .. Len(calls') :
          calls'[n].fn = "ulSurfaceGetDirtyBounds" /\ calls'[n].vid = vid
    /\ ~g_views'[vid].dirty
    /\ g_views[vid].dirty => lastOp'.rc = 1

\* C38: every Update or UpdateNoTick of a view that is not closed polls the
\* pending messages and attempts the dirty-gated pixel copy, so that rendered
\* changes reach the texture, whatever the bounds are, the bounds of a view
\* on which SetBounds was never called included.
C38_UpdatePollsAndCopies ==
    [][UpdateStep => PolledAll /\ CopiedToTexture]_vars

\* what does hold: the poll in every such update, and the copy in those of
\* an object whose bounds are not all zero
UpdatePollsAndCopiesShown ==
    [][UpdateStep => /\ PolledAll
                     /\ ~isHidden(host.ui[1]) => CopiedToTexture
                     /\ isHidden(host.ui[1]) => lastOp'.rc = 0]_vars

\* ul_init succeeded once, and ul_destroy has stopped the worker since
ShutDown == initRc = 0 /\ ~g_worker_started

\* C39: once the view counter has come to zero and ul_destroy has run, the
\* engine is never initialized again, every later constructor call fails and
\* no view is created.
C39_NoViewAfterShutdown ==
    [][ShutDown =>
          /\ ShutDown' /\ viewCount = 0 /\ viewCount' = 0
          /\ \A i \in Slots : ~g_views'[i].used
          /\ \A u \in UIs : uis'[u].made = uis[u].made
          /\ lastOp'.op \in {"newUI", "ul_create_view_with_url"} => lastOp'.rc < 0]_vars

\* a constructor was called after the last object was closed, and failed
C39_Witness ==
    /\ ShutDown /\ lastOp.op = "newUI" /\ lastOp.rc < 0
    /\ \E u \in UIs : uis[u].closed
    /\ \E u \in UIs : ~uis[u].made

====
